---- MODULE Spec2Model ----
(***************************************************************************)
(* Verification model of the patient migration engine (MySQL legacy ->     *)
(* PostgreSQL): the national-id (CUI) validator of app/services/           *)
(* validacion.py, the normalizers of app/utils/normalizadores.py and the   *)
(* batch orchestrator of app/services/migracion/pacientes.py.              *)
(*                                                                         *)
(* Python values are modelled as follows.                                  *)
(*   None            [t |-> "none"]                                        *)
(*   a 64-bit int    [t |-> "int", neg |-> BOOLEAN, mag |-> <<digits>>]    *)
(*                   (canonical decimal magnitude, no leading zero), used  *)
(*                   for the BigInteger columns dpi / dpi_responsable      *)
(*   a small int     a TLA+ integer (ids, record numbers, counters)        *)
(*   a str           a sequence of one-character strings                   *)
(*   a tuple         a record ([ok, msg] for the validators)               *)
(***************************************************************************)
EXTENDS Integers, Sequences, FiniteSets, TLC

VARIABLES
    cui_pc,     \* position of the validator harness: "int", "str", "validado", "verificado"
    cui_in,     \* the argument handed to the validator
    cui_res     \* the (es_valido, mensaje_error) pair it returned

cui_vars == <<cui_pc, cui_in, cui_res>>

None == [t |-> "none"]

Min(a, b) == IF a < b THEN a ELSE b

(***************************************************************************)
(* Strings and decimal conversion                                          *)
(***************************************************************************)
DigitChars == <<"0", "1", "2", "3", "4", "5", "6", "7", "8", "9">>

\* the character of one decimal digit
DigitChar(d) == DigitChars[d + 1]

\* str.isdigit() on one character
IsDigitChar(c) == \E d \in 0..9 : DigitChars[d + 1] = c

\* int(c) for a character that is a digit
CharVal(c) == CHOOSE d \in 0..9 : DigitChars[d + 1] = c

\* str.isdigit(): non-empty and every character a digit
isdigit(s) == Len(s) > 0 /\ \A i \in 1..Len(s) : IsDigitChar(s[i])

\* str(n): "None" for None; for a big integer an optional minus sign, then its
\* decimal digits
PyStr(n) ==
    IF n.t = "none" THEN <<"N", "o", "n", "e">>
    ELSE (IF n.neg THEN <<"-">> ELSE <<>>) \o [i \in 1..Len(n.mag) |-> DigitChar(n.mag[i])]

\* s[a:b] of Python (0-based, end exclusive, clipped to the string)
Slice(s, a, b) == SubSeq(s, a + 1, Min(b, Len(s)))

\* reversed(s)
Reversed(s) == [i \in 1..Len(s) |-> s[Len(s) + 1 - i]]

(***************************************************************************)
(* Python values of the legacy columns                                     *)
(***************************************************************************)
\* a str value
PStr(s) == [t |-> "str", s |-> s]

\* an int value of an Integer column
PInt(n) == [t |-> "int", v |-> n]

\* an int value of a BigInteger column, by its decimal digits
PBig(neg, mag) == [t |-> "int", neg |-> neg, mag |-> mag]

\* a bool value
PBool(b) == [t |-> "bool", b |-> b]

\* datetime.date, datetime.time and datetime.datetime values
PDate(y, m, d) == [t |-> "date", y |-> y, m |-> m, d |-> d]
PTime(H, M, S) == [t |-> "time", H |-> H, M |-> M, S |-> S]
PDateTime(f, h) == [t |-> "datetime", y |-> f.y, m |-> f.m, d |-> f.d, H |-> h.H, M |-> h.M, S |-> h.S]

IsBig(v) == v.t = "int" /\ "mag" \in DOMAIN v

\* bool(v): None, "", 0 and False are falsy, everything else is truthy
Truthy(v) ==
    CASE v.t = "none" -> FALSE
      [] v.t = "str"  -> Len(v.s) > 0
      [] v.t = "int"  -> IF IsBig(v) THEN v.mag # <<0>> ELSE v.v # 0
      [] v.t = "bool" -> v.b
      [] OTHER        -> TRUE

LowerChars == <<"a", "b", "c", "d", "e", "f", "g", "h", "i", "j", "k", "l", "m",
                "n", "o", "p", "q", "r", "s", "t", "u", "v", "w", "x", "y", "z">>
UpperChars == <<"A", "B", "C", "D", "E", "F", "G", "H", "I", "J", "K", "L", "M",
                "N", "O", "P", "Q", "R", "S", "T", "U", "V", "W", "X", "Y", "Z">>

IsLowerChar(c) == \E i \in 1..26 : LowerChars[i] = c
IsUpperChar(c) == \E i \in 1..26 : UpperChars[i] = c
IsAlphaChar(c) == IsLowerChar(c) \/ IsUpperChar(c)
IsSpaceChar(c) == c = " "

\* str.upper() and str.lower()
upper(s) ==
    [i \in 1..Len(s) |->
        IF IsLowerChar(s[i]) THEN UpperChars[CHOOSE k \in 1..26 : LowerChars[k] = s[i]] ELSE s[i]]
lower(s) ==
    [i \in 1..Len(s) |->
        IF IsUpperChar(s[i]) THEN LowerChars[CHOOSE k \in 1..26 : UpperChars[k] = s[i]] ELSE s[i]]

\* str.strip(): drop leading and trailing whitespace
RECURSIVE lstrip(_)
lstrip(s) == IF Len(s) > 0 /\ IsSpaceChar(s[1]) THEN lstrip(Tail(s)) ELSE s
strip(s) == Reversed(lstrip(Reversed(lstrip(s))))

\* str.split(): the maximal runs of non-whitespace characters, in order
RECURSIVE SplitFrom(_, _, _)
SplitFrom(s, i, cur) ==
    IF i > Len(s) THEN (IF cur = <<>> THEN <<>> ELSE <<cur>>)
    ELSE IF IsSpaceChar(s[i])
         THEN (IF cur = <<>> THEN <<>> ELSE <<cur>>) \o SplitFrom(s, i + 1, <<>>)
         ELSE SplitFrom(s, i + 1, Append(cur, s[i]))
split(s) == SplitFrom(s, 1, <<>>)

\* " ".join(parts)
RECURSIVE join(_)
join(parts) ==
    IF Len(parts) = 0 THEN <<>>
    ELSE IF Len(parts) = 1 THEN parts[1]
    ELSE parts[1] \o <<" ">> \o join(Tail(parts))

\* the decimal digits of a natural number
RECURSIVE NatDigits(_)
NatDigits(n) == IF n < 10 THEN <<DigitChar(n)>> ELSE Append(NatDigits(n \div 10), DigitChar(n % 10))

\* str(n) of a small integer
IntStr(n) == IF n < 0 THEN <<"-">> \o NatDigits(0 - n) ELSE NatDigits(n)

\* int(s) of a string of decimal digits: leading zeros carry no value
RECURSIVE DropLeadingZeros(_)
DropLeadingZeros(m) == IF Len(m) > 1 /\ m[1] = 0 THEN DropLeadingZeros(Tail(m)) ELSE m
PyInt(s) == PBig(FALSE, DropLeadingZeros([i \in 1..Len(s) |-> CharVal(s[i])]))

\* the value of a string of decimal digits as a number (short strings only)
RECURSIVE DigitsValue(_)
DigitsValue(s) ==
    IF Len(s) = 0 THEN 0 ELSE DigitsValue(SubSeq(s, 1, Len(s) - 1)) * 10 + CharVal(s[Len(s)])

\* n as exactly w decimal digits, zero padded
RECURSIVE Pad(_, _)
Pad(n, w) == IF w = 0 THEN <<>> ELSE Append(Pad(n \div 10, w - 1), DigitChar(n % 10))

(***************************************************************************)
(* ValidadorPaciente: national-id validation                               *)
(***************************************************************************)
CUI_LONGITUD == 13

\* (True, None)
Valido == [ok |-> TRUE, msg |-> <<>>]

\* (False, <reason>)
Invalido(m) == [ok |-> FALSE, msg |-> m]

\* the loop  for i, digito in enumerate(reversed(numero_completo)): suma += int(digito) * (i + 2)
RECURSIVE SumaPonderada(_, _)
SumaPonderada(rev, i) ==
    IF i >= Len(rev) THEN 0
    ELSE CharVal(rev[i + 1]) * (i + 2) + SumaPonderada(rev, i + 1)

\* the same loop with the weight starting at 1 (a plausible slip)
RECURSIVE SumaPonderadaDesde1(_, _)
SumaPonderadaDesde1(rev, i) ==
    IF i >= Len(rev) THEN 0
    ELSE CharVal(rev[i + 1]) * (i + 1) + SumaPonderadaDesde1(rev, i + 1)

\* mutant of _validar_digito_verificador_cui: weights 1..12 instead of 2..13
validar_digito_pesos_desde_1(cui) ==
    IF Len(cui) < 13 THEN Invalido(<<"Error al validar CUI: ", "IndexError">>)
    ELSE IF ~IsDigitChar(cui[13]) THEN Invalido(<<"Error al validar CUI: ", "ValueError">>)
    ELSE
        LET numero_completo == Slice(cui, 0, 8) \o Slice(cui, 8, 12)
            digito_verificador == CharVal(cui[13])
        IN  IF ~isdigit(numero_completo)
            THEN Invalido(<<"Error al validar CUI: ", "ValueError">>)
            ELSE
                LET suma == SumaPonderadaDesde1(Reversed(numero_completo), 0)
                    digito_calculado == 11 - (suma % 11)
                IN  IF digito_calculado = 10
                    THEN Invalido(<<"CUI con digito verificador invalido (modulo 10)">>)
                    ELSE
                        LET esperado == IF digito_calculado = 11 THEN 0 ELSE digito_calculado
                        IN  IF esperado # digito_verificador
                            THEN Invalido(<<"Digito verificador incorrecto (esperado: ", DigitChar(esperado), ")">>)
                            ELSE Valido

\* ValidadorPaciente._validar_digito_verificador_cui(cui: str).  The try block
\* turns the IndexError of cui[12] and the ValueError of int() into a
\* (False, "Error al validar CUI: ...") result.
validar_digito_verificador_cui(cui) ==
    IF Len(cui) < 13 THEN Invalido(<<"Error al validar CUI: ", "IndexError">>)
    ELSE IF ~IsDigitChar(cui[13]) THEN Invalido(<<"Error al validar CUI: ", "ValueError">>)
    ELSE
        LET numero_completo == Slice(cui, 0, 8) \o Slice(cui, 8, 12)
            digito_verificador == CharVal(cui[13])
        IN  IF ~isdigit(numero_completo)
            THEN Invalido(<<"Error al validar CUI: ", "ValueError">>)
            ELSE
                LET suma == SumaPonderada(Reversed(numero_completo), 0)
                    digito_calculado == 11 - (suma % 11)
                IN  IF digito_calculado = 10
                    THEN Invalido(<<"CUI con digito verificador invalido (modulo 10)">>)
                    ELSE
                        LET esperado == IF digito_calculado = 11 THEN 0 ELSE digito_calculado
                        IN  IF esperado # digito_verificador
                            THEN Invalido(<<"Digito verificador incorrecto (esperado: ", DigitChar(esperado), ")">>)
                            ELSE Valido

\* mutant of validar_cui: the length test accepts longer numbers (< instead of !=)
validar_cui_longitud_minima(cui) ==
    IF cui = None THEN Valido
    ELSE
        LET cui_str == PyStr(cui)
        IN  IF Len(cui_str) < CUI_LONGITUD
            THEN Invalido(<<"CUI debe tener ">> \o NatDigits(CUI_LONGITUD) \o <<" digitos">>)
            ELSE IF ~isdigit(cui_str)
            THEN Invalido(<<"CUI debe contener solo numeros">>)
            ELSE validar_digito_verificador_cui(cui_str)

\* ValidadorPaciente.validar_cui(cui: Optional[int])
validar_cui(cui) ==
    IF cui = None THEN Valido
    ELSE
        LET cui_str == PyStr(cui)
        IN  IF Len(cui_str) # CUI_LONGITUD
            THEN Invalido(<<"CUI debe tener ">> \o NatDigits(CUI_LONGITUD) \o <<" digitos">>)
            ELSE IF ~isdigit(cui_str)
            THEN Invalido(<<"CUI debe contener solo numeros">>)
            ELSE validar_digito_verificador_cui(cui_str)

(***************************************************************************)
(* app/utils/normalizadores.py                                             *)
(***************************************************************************)
\* mutant of normalizar_cui: any number of digits passes the structural test
normalizar_cui_sin_longitud(dpi) ==
    IF ~Truthy(dpi) THEN None
    ELSE
        LET cui_str == strip(PyStr(dpi))
        IN  IF ~isdigit(cui_str) THEN None ELSE PyInt(cui_str)

normalizar_cui(dpi) ==
    IF ~Truthy(dpi) THEN None
    ELSE
        LET cui_str == strip(PyStr(dpi))
        IN  IF Len(cui_str) # 13 \/ ~isdigit(cui_str) THEN None ELSE PyInt(cui_str)

\* mutant of normalizar_expediente: the test `expediente == 0` is forgotten
normalizar_expediente_solo_none(expediente, id_mysql) ==
    IF expediente = None
    THEN <<"D", "U", "P", "-">> \o IntStr(id_mysql)
    ELSE IntStr(expediente.v)

\* mutant of normalizar_expediente: the generated value lacks the DUP- prefix
normalizar_expediente_sin_prefijo(expediente, id_mysql) ==
    IF expediente = None \/ expediente = PInt(0)
    THEN IntStr(id_mysql)
    ELSE IntStr(expediente.v)

normalizar_expediente(expediente, id_mysql) ==
    IF expediente = None \/ expediente = PInt(0)
    THEN <<"D", "U", "P", "-">> \o IntStr(id_mysql)
    ELSE IntStr(expediente.v)

validar_expediente_duplicado(expediente) == expediente = None \/ expediente = PInt(0)

normalizar_sexo(sexo) ==
    IF ~Truthy(sexo) THEN <<"N", "F">>
    ELSE
        LET x == upper(strip(sexo.s))
        IN  IF x \in {<<"M">>, <<"M", "A", "S", "C", "U", "L", "I", "N", "O">>, <<"H", "O", "M", "B", "R", "E">>}
            THEN <<"M">>
            ELSE IF x \in {<<"F">>, <<"F", "E", "M", "E", "N", "I", "N", "O">>, <<"M", "U", "J", "E", "R">>}
            THEN <<"F">>
            ELSE <<"N", "F">>

normalizar_estado(estado) ==
    IF ~Truthy(estado) THEN <<"V">>
    ELSE
        LET x == upper(strip(estado.s))
        IN  IF x \in {<<"F">>, <<"F", "A", "L", "L", "E", "C", "I", "D", "O">>,
                      <<"M", "U", "E", "R", "T", "O">>, <<"D", "E", "A", "D">>}
            THEN <<"F">>
            ELSE <<"V">>

normalizar_email(email) ==
    IF ~Truthy(email) THEN None
    ELSE
        LET x == lower(strip(email.s))
        IN  IF Len(x) = 0 \/ x \in {<<>>, <<"n", "/", "a">>, <<"n", "a">>,
                                     <<"n", "u", "l", "l">>, <<"n", "o", "n", "e">>}
            THEN None
            ELSE PStr(x)

\* str.split(sep): the pieces between the separators, empty pieces included
RECURSIVE SplitBy(_, _, _, _)
SplitBy(s, sep, i, cur) ==
    IF i > Len(s) THEN <<cur>>
    ELSE IF s[i] = sep THEN <<cur>> \o SplitBy(s, sep, i + 1, <<>>)
    ELSE SplitBy(s, sep, i + 1, Append(cur, s[i]))

IsLeap(y) == (y % 4 = 0 /\ y % 100 # 0) \/ y % 400 = 0

DaysInMonth(y, m) ==
    IF m = 2 THEN (IF IsLeap(y) THEN 29 ELSE 28)
    ELSE IF m \in {4, 6, 9, 11} THEN 30 ELSE 31

\* the strptime directive %Y: exactly four digits
MatchYear(p) == Len(p) = 4 /\ isdigit(p)

\* the strptime directive %m: 1[0-2] | 0[1-9] | [1-9]
MatchMonth(p) ==
    \/ Len(p) = 2 /\ p[1] = "1" /\ p[2] \in {"0", "1", "2"}
    \/ Len(p) = 2 /\ p[1] = "0" /\ IsDigitChar(p[2]) /\ p[2] # "0"
    \/ Len(p) = 1 /\ IsDigitChar(p[1]) /\ p[1] # "0"

\* the strptime directive %d: 3[0-1] | [1-2]\d | 0[1-9] | [1-9] | " "[1-9]
MatchDay(p) ==
    \/ Len(p) = 2 /\ p[1] = "3" /\ p[2] \in {"0", "1"}
    \/ Len(p) = 2 /\ p[1] \in {"1", "2"} /\ IsDigitChar(p[2])
    \/ Len(p) = 2 /\ p[1] \in {"0", " "} /\ IsDigitChar(p[2]) /\ p[2] # "0"
    \/ Len(p) = 1 /\ IsDigitChar(p[1]) /\ p[1] # "0"

\* the number a matched directive stands for
PartValue(p) == DigitsValue(IF p[1] = " " THEN Tail(p) ELSE p)

\* datetime.strptime(s, formato).date() for the formats of three numeric parts
\* joined by one separator; None stands for the ValueError
strptime_date(s, sep, yearFirst) ==
    LET parts == SplitBy(s, sep, 1, <<>>)
    IN  IF Len(parts) # 3 THEN None
        ELSE
            LET py == IF yearFirst THEN parts[1] ELSE parts[3]
                pm == parts[2]
                pd == IF yearFirst THEN parts[3] ELSE parts[1]
            IN  IF ~(MatchYear(py) /\ MatchMonth(pm) /\ MatchDay(pd)) THEN None
                ELSE
                    LET y == PartValue(py)
                        m == PartValue(pm)
                        d == PartValue(pd)
                    IN  IF y < 1 \/ d > DaysInMonth(y, m) THEN None ELSE PDate(y, m, d)

\* the list `formatos`: '%Y-%m-%d', '%d/%m/%Y', '%Y/%m/%d', '%d-%m-%Y'
formatos == << [sep |-> "-", yearFirst |-> TRUE], [sep |-> "/", yearFirst |-> FALSE],
               [sep |-> "/", yearFirst |-> TRUE], [sep |-> "-", yearFirst |-> FALSE] >>

\* the loop over `formatos`: the first format that parses, from index k on
RECURSIVE PrimerFormato(_, _)
PrimerFormato(s, k) ==
    IF k > Len(formatos) THEN None
    ELSE LET f == strptime_date(s, formatos[k].sep, formatos[k].yearFirst)
         IN  IF f # None THEN f ELSE PrimerFormato(s, k + 1)

Medianoche == PTime(0, 0, 0)

\* mutant of parsear_fecha_defuncion: the time of death is never combined
parsear_fecha_defuncion_medianoche(fecha_str, hora) ==
    IF ~Truthy(fecha_str) THEN None
    ELSE
        LET fecha_obj == PrimerFormato(strip(fecha_str.s), 1)
        IN  IF fecha_obj = None THEN None
            ELSE PDateTime(fecha_obj, Medianoche)

parsear_fecha_defuncion(fecha_str, hora) ==
    IF ~Truthy(fecha_str) THEN None
    ELSE
        LET fecha_obj == PrimerFormato(strip(fecha_str.s), 1)
        IN  IF fecha_obj = None THEN None
            ELSE IF Truthy(hora) THEN PDateTime(fecha_obj, hora)
            ELSE PDateTime(fecha_obj, Medianoche)

\* datetime.isoformat() of a value without microseconds
isoformat(dt) ==
    Pad(dt.y, 4) \o <<"-">> \o Pad(dt.m, 2) \o <<"-">> \o Pad(dt.d, 2) \o <<"T">> \o
    Pad(dt.H, 2) \o <<":">> \o Pad(dt.M, 2) \o <<":">> \o Pad(dt.S, 2)

\* element i of a token list as an optional str
Parte(partes, i) == PStr(partes[i])

\* mutant of extraer_nombres: only the third token is kept as other names
extraer_nombres_tercero(nombre_completo) ==
    IF ~Truthy(nombre_completo)
    THEN [primer_nombre |-> None, segundo_nombre |-> None, otros_nombres |-> None]
    ELSE
        LET partes == split(join(split(strip(nombre_completo.s))))
        IN  IF Len(partes) = 0
            THEN [primer_nombre |-> None, segundo_nombre |-> None, otros_nombres |-> None]
            ELSE IF Len(partes) = 1
            THEN [primer_nombre |-> Parte(partes, 1), segundo_nombre |-> None, otros_nombres |-> None]
            ELSE IF Len(partes) = 2
            THEN [primer_nombre |-> Parte(partes, 1), segundo_nombre |-> Parte(partes, 2),
                  otros_nombres |-> None]
            ELSE [primer_nombre |-> Parte(partes, 1), segundo_nombre |-> Parte(partes, 2),
                  otros_nombres |-> Parte(partes, 3)]

extraer_nombres(nombre_completo) ==
    IF ~Truthy(nombre_completo)
    THEN [primer_nombre |-> None, segundo_nombre |-> None, otros_nombres |-> None]
    ELSE
        LET partes == split(join(split(strip(nombre_completo.s))))
        IN  IF Len(partes) = 0
            THEN [primer_nombre |-> None, segundo_nombre |-> None, otros_nombres |-> None]
            ELSE IF Len(partes) = 1
            THEN [primer_nombre |-> Parte(partes, 1), segundo_nombre |-> None, otros_nombres |-> None]
            ELSE IF Len(partes) = 2
            THEN [primer_nombre |-> Parte(partes, 1), segundo_nombre |-> Parte(partes, 2),
                  otros_nombres |-> None]
            ELSE [primer_nombre |-> Parte(partes, 1), segundo_nombre |-> Parte(partes, 2),
                  otros_nombres |-> PStr(join(SubSeq(partes, 3, Len(partes))))]

extraer_apellidos(apellido_completo) ==
    IF ~Truthy(apellido_completo)
    THEN [primer_apellido |-> None, segundo_apellido |-> None]
    ELSE
        LET partes == split(join(split(strip(apellido_completo.s))))
        IN  IF Len(partes) = 0
            THEN [primer_apellido |-> None, segundo_apellido |-> None]
            ELSE IF Len(partes) = 1
            THEN [primer_apellido |-> Parte(partes, 1), segundo_apellido |-> None]
            ELSE [primer_apellido |-> Parte(partes, 1),
                  segundo_apellido |-> PStr(join(SubSeq(partes, 2, Len(partes))))]

construir_nombre_jsonb(nombre, apellido, conyugue) ==
    LET nombres == extraer_nombres(nombre)
        apellidos == extraer_apellidos(apellido)
    IN  [primer_nombre |-> nombres.primer_nombre,
         segundo_nombre |-> nombres.segundo_nombre,
         otros_nombres |-> nombres.otros_nombres,
         primer_apellido |-> apellidos.primer_apellido,
         segundo_apellido |-> apellidos.segundo_apellido,
         apellido_casada |-> IF Truthy(conyugue) THEN conyugue ELSE None]

construir_contacto_jsonb(telefono, email, direccion, municipio, depto) ==
    LET email_normalizado == normalizar_email(email)
    IN  [telefono_principal |-> telefono,
         email |-> email_normalizado,
         direccion |-> IF Truthy(direccion) \/ Truthy(municipio) \/ Truthy(depto)
                       THEN [t |-> "dict", linea1 |-> direccion, municipio_id |-> municipio,
                             departamento_id |-> depto]
                       ELSE None]

\* the literals of the twin flag
GemeloSi == {<<"S", "I">>, <<"S">>, <<"Y", "E", "S">>, <<"Y">>, <<"1">>}

construir_referencias_jsonb(padre, madre, exp_madre, responsable, parentesco, dpi_responsable, telefono_responsable, exp_ref, conyugue, gemelo) ==
    LET cui_responsable == normalizar_cui(dpi_responsable)
    IN  [padre |-> padre,
         madre |-> madre,
         expediente_madre |-> exp_madre,
         responsable |-> IF Truthy(responsable)
                         THEN [t |-> "dict", nombre |-> responsable, parentesco_id |-> parentesco,
                               cui |-> cui_responsable, telefono |-> telefono_responsable,
                               expediente |-> exp_ref]
                         ELSE None,
         conyugue |-> conyugue,
         \* `gemelo and gemelo.upper() in (...)`: a falsy gemelo is returned as it is
         es_gemelo |-> IF ~Truthy(gemelo) THEN gemelo ELSE PBool(upper(gemelo.s) \in GemeloSi)]

construir_datos_extra_jsonb(nacionalidad, depto_nac, lugar_nacimiento, estado_civil, educacion, pueblo, idioma, ocupacion, fecha_defuncion, hora_defuncion) ==
    LET fecha_hora_defuncion == parsear_fecha_defuncion(fecha_defuncion, hora_defuncion)
    IN  [demograficos |-> [nacionalidad_id |-> nacionalidad,
                           departamento_nacimiento_id |-> depto_nac,
                           lugar_nacimiento_id |-> lugar_nacimiento,
                           estado_civil_id |-> estado_civil,
                           pueblo_id |-> pueblo,
                           idioma_id |-> idioma],
         socioeconomicos |-> [educacion_id |-> educacion, ocupacion |-> ocupacion],
         defuncion |-> IF fecha_hora_defuncion # None
                       THEN [t |-> "dict", fecha_hora |-> PStr(isoformat(fecha_hora_defuncion))]
                       ELSE None]

\* `ahora` is the reading of datetime.now()
construir_metadatos_jsonb(id_mysql, created_by, expediente_duplicado, ahora) ==
    [sistema_origen |-> "mysql_legacy",
     id_origen |-> id_mysql,
     creado_por |-> created_by,
     migrado_en |-> PStr(isoformat(ahora)),
     version_migracion |-> "1.0",
     expediente_duplicado |-> expediente_duplicado,
     notas |-> IF expediente_duplicado THEN "Expediente marcado como duplicado o nulo" ELSE "None"]

\* re.sub(r'[^\d]', '', s): the digits of s, in order
RECURSIVE SoloDigitos(_)
SoloDigitos(s) ==
    IF Len(s) = 0 THEN <<>>
    ELSE (IF IsDigitChar(s[1]) THEN <<s[1]>> ELSE <<>>) \o SoloDigitos(Tail(s))

limpiar_telefono(telefono) ==
    IF ~Truthy(telefono) THEN None
    ELSE
        LET telefono_limpio == SoloDigitos(telefono.s)
        IN  IF Len(telefono_limpio) = 0 THEN None ELSE PStr(telefono_limpio)

(***************************************************************************)
(* app/services/validacion.py: the remaining validators                    *)
(***************************************************************************)
PASAPORTE_MAX_LENGTH == 50
EXPEDIENTE_MAX_LENGTH == 20
NOMBRE_MAX_LENGTH == 100
TELEFONO_MAX_LENGTH == 20

\* a reason given as one literal
Msg(txt) == <<txt>>

\* date and datetime ordering
DateKey(f) == <<f.y, f.m, f.d>>
RECURSIVE LexLess(_, _)
LexLess(a, b) ==
    IF Len(a) = 0 THEN FALSE
    ELSE IF a[1] # b[1] THEN a[1] < b[1]
    ELSE LexLess(Tail(a), Tail(b))
DateLess(a, b) == LexLess(DateKey(a), DateKey(b))
DateTimeLess(a, b) == LexLess(<<a.y, a.m, a.d, a.H, a.M, a.S>>, <<b.y, b.m, b.d, b.H, b.M, b.S>>)

validar_pasaporte(pasaporte) ==
    IF ~Truthy(pasaporte) THEN Valido
    ELSE
        LET p == strip(pasaporte.s)
        IN  IF Len(p) > PASAPORTE_MAX_LENGTH
            THEN Invalido(Msg("Pasaporte muy largo"))
            ELSE IF ~(\E i \in 1..Len(p) : IsAlphaChar(p[i])) \/ ~(\E i \in 1..Len(p) : IsDigitChar(p[i]))
            THEN Invalido(Msg("Pasaporte debe contener letras y numeros"))
            ELSE Valido

\* str.startswith
startswith(s, pre) == Len(s) >= Len(pre) /\ SubSeq(s, 1, Len(pre)) = pre

\* expediente is an optional str given as a character sequence or None
validar_expediente(expediente) ==
    IF expediente = None \/ (expediente # None /\ Len(expediente.s) = 0)
    THEN Invalido(Msg("Expediente es requerido"))
    ELSE
        LET e == strip(expediente.s)
        IN  IF Len(e) > EXPEDIENTE_MAX_LENGTH THEN Invalido(Msg("Expediente muy largo"))
            ELSE IF startswith(e, <<"D", "U", "P", "-">>) THEN Valido
            ELSE IF ~isdigit(e) THEN Invalido(Msg("Expediente debe ser numerico o formato DUP-{id}"))
            ELSE Valido

\* the reasons of a list of (es_valido, mensaje) results, in order
RECURSIVE Reasons(_)
Reasons(rs) ==
    IF Len(rs) = 0 THEN <<>>
    ELSE (IF rs[1].ok THEN <<>> ELSE <<rs[1].msg>>) \o Reasons(Tail(rs))

\* mutant of validar_identificadores: invalid as soon as one identifier is invalid
validar_identificadores_todos(expediente, cui, pasaporte) ==
    LET r_exp == validar_expediente(expediente)
        r_cui == validar_cui(cui)
        r_pass == validar_pasaporte(pasaporte)
        errores == Reasons(<<r_exp, r_cui, r_pass>>)
    IN  IF ~(r_exp.ok /\ r_cui.ok /\ r_pass.ok)
        THEN [ok |-> FALSE, errores |-> Append(errores, Msg("Debe proporcionar al menos un identificador valido"))]
        ELSE [ok |-> TRUE, errores |-> errores]

validar_identificadores(expediente, cui, pasaporte) ==
    LET r_exp == validar_expediente(expediente)
        r_cui == validar_cui(cui)
        r_pass == validar_pasaporte(pasaporte)
        errores == Reasons(<<r_exp, r_cui, r_pass>>)
    IN  IF ~(r_exp.ok \/ r_cui.ok \/ r_pass.ok)
        THEN [ok |-> FALSE, errores |-> Append(errores, Msg("Debe proporcionar al menos un identificador valido"))]
        ELSE [ok |-> TRUE, errores |-> errores]

\* the character class [a-zA-Z\s'-] of the name pattern (accented letters are
\* outside the model's alphabet)
IsNombreChar(c) == IsAlphaChar(c) \/ IsSpaceChar(c) \/ c = "'" \/ c = "-"

CamposNombre == <<"primer_nombre", "segundo_nombre", "otros_nombres",
                  "primer_apellido", "segundo_apellido", "apellido_casada">>

\* the reasons the second loop of validar_nombre_jsonb gives for one field
ErroresCampoNombre(campo, valor) ==
    IF ~(valor.t = "str" /\ Truthy(valor)) THEN <<>>
    ELSE (IF Len(valor.s) > NOMBRE_MAX_LENGTH THEN << <<campo, " muy largo">> >> ELSE <<>>) \o
         (IF ~(\A i \in 1..Len(valor.s) : IsNombreChar(valor.s[i]))
          THEN << <<campo, " contiene caracteres invalidos">> >> ELSE <<>>)

RECURSIVE ErroresNombreDesde(_, _)
ErroresNombreDesde(nombre, k) ==
    IF k > Len(CamposNombre) THEN <<>>
    ELSE ErroresCampoNombre(CamposNombre[k], nombre[CamposNombre[k]]) \o ErroresNombreDesde(nombre, k + 1)

validar_nombre_jsonb(nombre) ==
    LET requeridos ==
            (IF ~Truthy(nombre.primer_nombre) THEN << <<"primer_nombre", " es requerido">> >> ELSE <<>>) \o
            (IF ~Truthy(nombre.primer_apellido) THEN << <<"primer_apellido", " es requerido">> >> ELSE <<>>)
        errores == requeridos \o ErroresNombreDesde(nombre, 1)
    IN  [ok |-> Len(errores) = 0, errores |-> errores]

validar_sexo(sexo) ==
    IF sexo \notin {<<"M">>, <<"F">>, <<"N", "F">>}
    THEN Invalido(Msg("Sexo debe ser uno de: M, F, NF"))
    ELSE Valido

\* date(hoy.year - 150, hoy.month, hoy.day) raises ValueError when that day
\* does not exist (hoy is 29 February and hoy.year - 150 is not a leap year)
edad_maxima == 150
fecha_minima_raises(hoy) == hoy.d > DaysInMonth(hoy.y - edad_maxima, hoy.m)

\* whether validar_fecha_nacimiento leaves by an exception
validar_fecha_nacimiento_raises(fecha, hoy) ==
    fecha # None /\ ~DateLess(hoy, fecha) /\ fecha_minima_raises(hoy)

\* validar_fecha_nacimiento when it returns; hoy is the reading of date.today()
validar_fecha_nacimiento(fecha, hoy) ==
    IF fecha = None THEN Valido
    ELSE IF DateLess(hoy, fecha) THEN Invalido(Msg("Fecha de nacimiento no puede ser futura"))
    ELSE
        LET fecha_minima == PDate(hoy.y - edad_maxima, hoy.m, hoy.d)
        IN  IF DateLess(fecha, fecha_minima)
            THEN Invalido(Msg("Fecha de nacimiento muy antigua"))
            ELSE Valido

\* [a-zA-Z0-9._%+-] and [a-zA-Z0-9.-] of REGEX_EMAIL
IsEmailLocalChar(c) == IsAlphaChar(c) \/ IsDigitChar(c) \/ c \in {".", "_", "%", "+", "-"}
IsEmailDomainChar(c) == IsAlphaChar(c) \/ IsDigitChar(c) \/ c \in {".", "-"}

\* REGEX_EMAIL.match(s): local@domain.tld with a tld of two or more letters
MatchEmail(s) ==
    \E a \in 1..Len(s) :
        /\ s[a] = "@"
        /\ a > 1
        /\ \A i \in 1..(a - 1) : IsEmailLocalChar(s[i])
        /\ \E k \in (a + 2)..Len(s) :
            /\ s[k] = "."
            /\ \A i \in (a + 1)..(k - 1) : IsEmailDomainChar(s[i])
            /\ Len(s) - k >= 2
            /\ \A i \in (k + 1)..Len(s) : IsAlphaChar(s[i])

validar_contacto_jsonb(contacto) ==
    LET telefono == contacto.telefono_principal
        email == contacto.email
        direccion == contacto.direccion
        errores ==
            (IF Truthy(telefono) /\ Len(telefono.s) > TELEFONO_MAX_LENGTH
             THEN <<Msg("Telefono muy largo")>> ELSE <<>>) \o
            (IF Truthy(email) /\ ~MatchEmail(email.s)
             THEN <<Msg("Formato de email invalido")>> ELSE <<>>) \o
            (IF direccion.t = "dict" /\ ~Truthy(direccion.linea1)
             THEN <<Msg("Direccion debe incluir al menos linea1")>> ELSE <<>>)
    IN  [ok |-> Len(errores) = 0, errores |-> errores]

validar_estado(estado) ==
    IF estado \notin {<<"V">>, <<"F">>}
    THEN Invalido(Msg("Estado debe ser uno de: V, F"))
    ELSE Valido

validar_referencias_jsonb(referencias) ==
    LET responsable == referencias.responsable
        es_gemelo == referencias.es_gemelo
        errores ==
            (IF responsable.t = "dict" /\ Truthy(responsable.cui) /\ ~validar_cui(responsable.cui).ok
             THEN << <<"CUI del responsable: ">> \o validar_cui(responsable.cui).msg >> ELSE <<>>) \o
            (IF es_gemelo # None /\ es_gemelo.t # "bool"
             THEN <<Msg("es_gemelo debe ser true o false")>> ELSE <<>>)
    IN  [ok |-> Len(errores) = 0, errores |-> errores]

\* datetime.fromisoformat(s) for the shape YYYY-MM-DDTHH:MM:SS; None stands
\* for the ValueError
fromisoformat(s) ==
    IF /\ Len(s) = 19
       /\ s[5] = "-" /\ s[8] = "-" /\ s[11] = "T" /\ s[14] = ":" /\ s[17] = ":"
       /\ \A i \in {1, 2, 3, 4, 6, 7, 9, 10, 12, 13, 15, 16, 18, 19} : IsDigitChar(s[i])
    THEN
        LET y == DigitsValue(SubSeq(s, 1, 4))
            m == DigitsValue(SubSeq(s, 6, 7))
            d == DigitsValue(SubSeq(s, 9, 10))
            H == DigitsValue(SubSeq(s, 12, 13))
            M == DigitsValue(SubSeq(s, 15, 16))
            S == DigitsValue(SubSeq(s, 18, 19))
        IN  IF y >= 1 /\ m \in 1..12 /\ d >= 1 /\ d <= DaysInMonth(y, m) /\ H < 24 /\ M < 60 /\ S < 60
            THEN PDateTime(PDate(y, m, d), PTime(H, M, S))
            ELSE None
    ELSE None

\* ahora is the reading of datetime.now()
validar_datos_extra_jsonb(datos_extra, ahora) ==
    LET defuncion == datos_extra.defuncion
        errores ==
            IF defuncion.t = "dict" /\ Truthy(defuncion.fecha_hora)
            THEN LET fecha_def == fromisoformat(defuncion.fecha_hora.s)
                 IN  IF fecha_def = None
                     THEN <<Msg("Formato de fecha_hora de defuncion invalido")>>
                     ELSE IF DateTimeLess(ahora, fecha_def)
                     THEN <<Msg("Fecha de defuncion no puede ser futura")>>
                     ELSE <<>>
            ELSE <<>>
    IN  [ok |-> Len(errores) = 0, errores |-> errores]

\* the entries of errores_por_campo, in the order the code assigns them; a
\* later entry for the same key replaces the earlier one
RECURSIVE DictFrom(_)
DictFrom(items) ==
    IF Len(items) = 0 THEN <<>>
    ELSE LET rest == DictFrom(SubSeq(items, 1, Len(items) - 1))
             last == items[Len(items)]
         IN  [k \in DOMAIN rest \cup {last[1]} |-> IF k = last[1] THEN last[2] ELSE rest[k]]

\* ValidadorPaciente.validar_paciente_completo on a normalized record p
validar_paciente_completo(p, hoy, ahora) ==
    IF validar_fecha_nacimiento_raises(p.fecha_nacimiento, hoy)
    THEN [t |-> "raise", tipo |-> "ValueError"]
    ELSE
        LET r_ids == validar_identificadores(PStr(p.expediente), p.cui, p.pasaporte)
            r_nombre == validar_nombre_jsonb(p.nombre)
            r_sexo == validar_sexo(p.sexo)
            r_fecha == validar_fecha_nacimiento(p.fecha_nacimiento, hoy)
            r_contacto == validar_contacto_jsonb(p.contacto)
            r_refs == validar_referencias_jsonb(p.referencias)
            r_extra == validar_datos_extra_jsonb(p.datos_extra, ahora)
            r_estado == validar_estado(p.estado)
            items ==
                (IF ~r_ids.ok THEN << <<"identificadores", r_ids.errores>> >> ELSE <<>>) \o
                (IF ~r_nombre.ok THEN << <<"nombre", r_nombre.errores>> >> ELSE <<>>) \o
                (IF ~r_sexo.ok THEN << <<"sexo", <<r_sexo.msg>> >> >> ELSE <<>>) \o
                (IF ~r_fecha.ok THEN << <<"fecha_nacimiento", <<r_fecha.msg>> >> >> ELSE <<>>) \o
                (IF ~r_contacto.ok THEN << <<"contacto", r_contacto.errores>> >> ELSE <<>>) \o
                (IF ~r_refs.ok THEN << <<"referencias", r_refs.errores>> >> ELSE <<>>) \o
                (IF ~r_extra.ok THEN << <<"datos_extra", r_extra.errores>> >> ELSE <<>>) \o
                (IF ~r_estado.ok THEN << <<"estado", <<r_estado.msg>> >> >> ELSE <<>>) \o
                (IF p.estado = <<"F">> /\ p.datos_extra.defuncion = None
                 THEN << <<"estado", <<Msg("Paciente fallecido debe tener fecha de defuncion")>> >> >>
                 ELSE <<>>)
            errores_por_campo == DictFrom(items)
        IN  [t |-> "ok", es_valido |-> DOMAIN errores_por_campo = {}, errores_por_campo |-> errores_por_campo]

(***************************************************************************)
(* Legacy rows (PacienteMysql) of the source table                         *)
(***************************************************************************)
S(x) == PStr(x)

\* a complete, well-formed legacy row with internal id `id`
FilaBase(id) ==
    [id |-> id,
     expediente |-> PInt(100 + id),
     dpi |-> None,
     pasaporte |-> None,
     nombre |-> S(<<"A", "n", "a">>),
     apellido |-> S(<<"P", "a", "z", " ", "G", "i", "l">>),
     sexo |-> S(<<"F">>),
     nacimiento |-> PDate(1985, 5, 20),
     nacionalidad |-> PInt(1), depto_nac |-> PInt(1), lugar_nacimiento |-> PInt(1),
     estado_civil |-> PInt(2), educacion |-> PInt(3), pueblo |-> PInt(1), idioma |-> PInt(1),
     ocupacion |-> None,
     direccion |-> S(<<"z", " ", "1">>), municipio |-> PInt(1), depto |-> PInt(1),
     telefono |-> S(<<"5", "5", "-", "6", "6">>),
     email |-> None,
     padre |-> None, madre |-> None, exp_madre |-> None,
     responsable |-> None, parentesco |-> None, dpi_responsable |-> None,
     telefono_responsable |-> None, exp_ref |-> None,
     conyugue |-> None,
     gemelo |-> S(<<"N", "O">>),
     estado |-> S(<<"V">>),
     fechaDefuncion |-> None,
     hora_defuncion |-> None,
     created_by |-> S(<<"a", "d", "m">>),
     created_at |-> PDateTime(PDate(2024, 1, 1), PTime(10, 0, 0)),
     update_at |-> PDateTime(PDate(2024, 1, 1), PTime(10, 0, 0))]

\* 1234567890112: thirteen digits with a correct check digit
DpiValido == PBig(FALSE, <<1, 2, 3, 4, 5, 6, 7, 8, 9, 0, 1, 1, 2>>)
\* 123456789: nine digits
DpiCorto == PBig(FALSE, <<1, 2, 3, 4, 5, 6, 7, 8, 9>>)

\* the kinds of legacy row the source table is filled with: complete; with a
\* valid national id (two such rows collide on the unique cui column); with a
\* nine-digit national id and no record number; without given names and with
\* record number 0
Kinds == {"ok", "dpi", "dpi9", "sin_nombre"}

\* the legacy row of a kind with internal id `id`
Fila(kind, id) ==
    CASE kind = "ok" -> FilaBase(id)
      [] kind = "dpi" -> [FilaBase(id) EXCEPT !.dpi = DpiValido]
      [] kind = "dpi9" -> [FilaBase(id) EXCEPT !.dpi = DpiCorto, !.expediente = None]
      [] kind = "sin_nombre" -> [FilaBase(id) EXCEPT !.nombre = None, !.expediente = PInt(0)]

(***************************************************************************)
(* app/services/migracion/pacientes.py: MigracionPacientesService          *)
(***************************************************************************)
VARIABLES
    pc,               \* position of the run: "idle", "fetch", "transform", "commit",
                      \* "returned", "done", "raised"
    source,           \* the rows of the MySQL table, ordered by id
    batch_size,       \* self.batch_size
    errores,          \* self.errores
    advertencias,     \* self.advertencias
    exitosos,         \* self.exitosos
    duplicados,       \* self.duplicados
    cui_invalidos,    \* self.cui_invalidos
    offset,           \* migrar_todo: offset
    total_procesados, \* migrar_todo: total_procesados
    resultado,        \* the dict the last migrar_batch call returned
    pacientes_mysql,  \* migrar_batch: the fetched page
    idx,              \* migrar_batch: position of the for loop in the page (1-based)
    batch_exitosos,   \* migrar_batch: batch_exitosos
    batch_errores,    \* migrar_batch: batch_errores
    pending,          \* the objects added to postgres_session and not yet committed
    sink,             \* the committed rows of the PostgreSQL table
    respuesta,        \* what the endpoint migrate_all_pacientes answers
    fetch_log,        \* history: the offset of every page query, in order
    fetched,          \* history: the ids of the rows the page queries returned, in order
    commit_log,       \* history: every commit attempt as [offset, ok, causa]
    fallas            \* history: the I/O and per-record faults injected so far

mig_vars == <<pc, source, batch_size, errores, advertencias, exitosos, duplicados,
              cui_invalidos, offset, total_procesados, resultado, pacientes_mysql, idx,
              batch_exitosos, batch_errores, pending, sink, respuesta, fetch_log, fetched,
              commit_log, fallas>>

vars == <<cui_vars, mig_vars>>

\* the largest source table, the largest batch_size and the most faults of one run
MaxN == 3
MaxBatch == 2
MaxFallas == 2

\* the readings of date.today() and datetime.now() during the run
Hoy == PDate(2026, 11, 5)
Ahora == PDateTime(Hoy, PTime(12, 0, 0))

\* the dict datos_postgres that transformar_paciente builds
datos_postgres(pm, ahora) ==
    LET cui == normalizar_cui(pm.dpi)
        es_duplicado == validar_expediente_duplicado(pm.expediente)
        expediente_normalizado == normalizar_expediente(pm.expediente, pm.id)
    IN  [expediente |-> expediente_normalizado,
         cui |-> cui,
         pasaporte |-> pm.pasaporte,
         nombre |-> construir_nombre_jsonb(pm.nombre, pm.apellido, pm.conyugue),
         sexo |-> normalizar_sexo(pm.sexo),
         fecha_nacimiento |-> pm.nacimiento,
         contacto |-> construir_contacto_jsonb(limpiar_telefono(pm.telefono), pm.email,
                                               pm.direccion, pm.municipio, pm.depto),
         referencias |-> construir_referencias_jsonb(pm.padre, pm.madre, pm.exp_madre,
                              pm.responsable, pm.parentesco, pm.dpi_responsable,
                              pm.telefono_responsable, pm.exp_ref, pm.conyugue, pm.gemelo),
         datos_extra |-> construir_datos_extra_jsonb(pm.nacionalidad, pm.depto_nac,
                              pm.lugar_nacimiento, pm.estado_civil, pm.educacion, pm.pueblo,
                              pm.idioma, pm.ocupacion, pm.fechaDefuncion, pm.hora_defuncion),
         estado |-> normalizar_estado(pm.estado),
         metadatos |-> construir_metadatos_jsonb(pm.id, pm.created_by, es_duplicado, ahora),
         creado_en |-> pm.created_at,
         actualizado_en |-> pm.update_at]

\* the warning transformar_paciente records for a national id it drops
AdvertenciaCui(pm, ahora) ==
    [id_mysql |-> pm.id, expediente |-> pm.expediente, tipo |-> "CUI_INVALIDO",
     mensaje |-> <<"CUI/DPI invalido: ">> \o PyStr(pm.dpi), timestamp |-> isoformat(ahora)]

\* the entry of the except branch of transformar_paciente
ErrorTransformacion(pm, ahora) ==
    [id_mysql |-> pm.id, expediente |-> pm.expediente, error |-> "str(e)",
     tipo |-> "Exception", timestamp |-> isoformat(ahora)]

\* the entry of the except branch around PacientePostgres(**datos) and session.add
ErrorInsert(pm, ahora) ==
    [id_mysql |-> pm.id, expediente |-> pm.expediente,
     error |-> "Error al insertar en PostgreSQL: str(e)",
     tipo |-> "INSERT_ERROR", timestamp |-> isoformat(ahora)]

\* the entry of the except branch around postgres_session.commit()
ErrorCommit(off, ahora) ==
    [batch |-> off, error |-> "Error en commit del batch: str(e)",
     tipo |-> "COMMIT_ERROR", timestamp |-> isoformat(ahora)]

\* mutant of CuiDescartado: the test `paciente_mysql.dpi is not None` is forgotten
CuiDescartadoSinDpi(pm) == normalizar_cui(pm.dpi) = None

\* whether step 1 of transformar_paciente records a dropped national id
CuiDescartado(pm) == normalizar_cui(pm.dpi) = None /\ pm.dpi # None

\* mutant of Pagina: the page starts one row late
PaginaDesdeSiguiente(src, off, size) == SubSeq(src, off + 2, Min(off + size, Len(src)))

\* the page query: select ... offset(offset).limit(batch_size).order_by(id)
Pagina(src, off, size) == SubSeq(src, off + 1, Min(off + size, Len(src)))

\* mutant of Restricciones: the table does not enforce unique record numbers
RestriccionesSinExpediente(filas) ==
    /\ \A i, j \in 1..Len(filas) : i # j =>
        /\ filas[i].cui = None \/ filas[i].cui # filas[j].cui
        /\ filas[i].pasaporte = None \/ filas[i].pasaporte # filas[j].pasaporte
    /\ \A i \in 1..Len(filas) : filas[i].creado_en # None /\ filas[i].actualizado_en # None

\* the constraints of the pacientes table a commit enforces: unique expediente,
\* cui and pasaporte (NULLs apart), creado_en and actualizado_en NOT NULL
Restricciones(filas) ==
    /\ \A i, j \in 1..Len(filas) : i # j =>
        /\ filas[i].expediente # filas[j].expediente
        /\ filas[i].cui = None \/ filas[i].cui # filas[j].cui
        /\ filas[i].pasaporte = None \/ filas[i].pasaporte # filas[j].pasaporte
    /\ \A i \in 1..Len(filas) : filas[i].creado_en # None /\ filas[i].actualizado_en # None

\* the result dicts of migrar_batch
ResultadoVacio == [procesados |-> 0, exitosos |-> 0, errores |-> 0, mensaje |-> "No hay mas registros"]

\* mutant of ResultadoCommitFallido: the failed batch is offered again
ResultadoCommitFallidoReintenta(n, off, size) ==
    [procesados |-> n, exitosos |-> 0, errores |-> n, offset_siguiente |-> off]

ResultadoCommitFallido(n, off, size) ==
    [procesados |-> n, exitosos |-> 0, errores |-> n, offset_siguiente |-> off + size]

\* mutant of ResultadoBatch: the offset advances by the rows read
ResultadoBatchAvanzaLeidos(n, ok, err, off, size) ==
    [procesados |-> n, exitosos |-> ok, errores |-> err, offset_siguiente |-> off + n]

ResultadoBatch(n, ok, err, off, size) ==
    [procesados |-> n, exitosos |-> ok, errores |-> err, offset_siguiente |-> off + size]

\* the dict migrar_todo returns
ResultadoTotal ==
    [total_procesados |-> total_procesados,
     total_exitosos |-> exitosos,
     total_errores |-> Len(errores),
     total_advertencias |-> Len(advertencias),
     expedientes_duplicados |-> duplicados,
     cui_invalidos |-> cui_invalidos,
     errores |-> errores,
     advertencias |-> advertencias]

\* the source tables: ids 1..n in order, each row of some kind
Sources ==
    UNION { { [i \in 1..n |-> Fila(k[i], i)] : k \in [1..n -> Kinds] } : n \in 0..MaxN }

\* the state after MigracionPacientesService(batch_size) is constructed
InitMig ==
    /\ pc = "idle"
    /\ source \in Sources
    /\ batch_size \in 1..MaxBatch
    /\ errores = <<>> /\ advertencias = <<>>
    /\ exitosos = 0 /\ duplicados = 0 /\ cui_invalidos = 0
    /\ offset = 0 /\ total_procesados = 0
    /\ resultado = None
    /\ pacientes_mysql = <<>> /\ idx = 0 /\ batch_exitosos = 0 /\ batch_errores = 0
    /\ pending = <<>> /\ sink = <<>>
    /\ respuesta = None
    /\ fetch_log = <<>> /\ fetched = <<>> /\ commit_log = <<>> /\ fallas = <<>>

\* migrate_all_pacientes calls servicio.migrar_todo(): offset = 0, total_procesados = 0
MigrarTodo ==
    /\ pc = "idle"
    /\ offset' = 0
    /\ total_procesados' = 0
    /\ pc' = "fetch"
    /\ UNCHANGED <<source, batch_size, errores, advertencias, exitosos, duplicados,
                   cui_invalidos, resultado, pacientes_mysql, idx, batch_exitosos,
                   batch_errores, pending, sink, respuesta, fetch_log, fetched, commit_log,
                   fallas>>

\* mutant of FetchPage: an empty page is recorded as an error of the run
FetchPageAnotaVacio ==
    /\ pc = "fetch"
    /\ LET pagina == Pagina(source, offset, batch_size)
       IN  /\ fetch_log' = Append(fetch_log, offset)
           /\ fetched' = fetched \o [i \in 1..Len(pagina) |-> pagina[i].id]
           /\ pacientes_mysql' = pagina
           /\ batch_exitosos' = 0
           /\ batch_errores' = 0
           /\ pending' = <<>>
           /\ IF Len(pagina) = 0
              THEN /\ resultado' = ResultadoVacio
                   /\ errores' = Append(errores, ErrorCommit(offset, Ahora))
                   /\ idx' = 0
                   /\ pc' = "returned"
              ELSE /\ resultado' = resultado
                   /\ errores' = errores
                   /\ idx' = 1
                   /\ pc' = "transform"
    /\ UNCHANGED <<source, batch_size, advertencias, exitosos, duplicados,
                   cui_invalidos, offset, total_procesados, sink, respuesta, commit_log,
                   fallas>>

\* migrar_batch(offset): the page query succeeds.  An empty page returns the
\* zero result at once; the session context managers close on the way out.
FetchPage ==
    /\ pc = "fetch"
    /\ LET pagina == Pagina(source, offset, batch_size)
       IN  /\ fetch_log' = Append(fetch_log, offset)
           /\ fetched' = fetched \o [i \in 1..Len(pagina) |-> pagina[i].id]
           /\ pacientes_mysql' = pagina
           /\ batch_exitosos' = 0
           /\ batch_errores' = 0
           /\ pending' = <<>>
           /\ IF Len(pagina) = 0
              THEN /\ resultado' = ResultadoVacio
                   /\ idx' = 0
                   /\ pc' = "returned"
              ELSE /\ resultado' = resultado
                   /\ idx' = 1
                   /\ pc' = "transform"
    /\ UNCHANGED <<source, batch_size, errores, advertencias, exitosos, duplicados,
                   cui_invalidos, offset, total_procesados, sink, respuesta, commit_log,
                   fallas>>

\* migrar_batch(offset): mysql_session.execute raises (source unreachable).
\* Nothing catches it in migrar_batch or migrar_todo; the endpoint turns it
\* into HTTP 500 with the exception text as detail.
FetchFails ==
    /\ pc = "fetch"
    /\ Len(fallas) < MaxFallas
    /\ fallas' = Append(fallas, [tipo |-> "source", offset |-> offset])
    /\ pc' = "raised"
    /\ respuesta' = [status |-> 500, detail |-> "Error durante la migracion: str(e)"]
    /\ UNCHANGED <<source, batch_size, errores, advertencias, exitosos, duplicados,
                   cui_invalidos, offset, total_procesados, resultado, pacientes_mysql, idx,
                   batch_exitosos, batch_errores, pending, sink, fetch_log, fetched,
                   commit_log>>

\* the per-record outcomes: no exception, an exception in transformar_paciente
\* before or after its first step, an exception while building or adding the
\* PacientePostgres object
Outcomes == {"ok", "transform_pre", "transform_post", "insert"}

\* mutant of SumaError: the else branch of `if datos_transformados` is forgotten
SumaErrorSoloInsert(outcome, n) == IF outcome = "insert" THEN n + 1 ELSE n

\* batch_errores after one record: += 1 in the except branch of the insert and
\* in the else branch of `if datos_transformados`
SumaError(outcome, n) == IF outcome = "ok" THEN n ELSE n + 1

\* one iteration of the for loop of migrar_batch on record idx
TransformRecord(outcome) ==
    /\ pc = "transform"
    /\ idx \in 1..Len(pacientes_mysql)
    /\ outcome # "ok" => Len(fallas) < MaxFallas
    /\ LET pm == pacientes_mysql[idx]
           paso1 == outcome # "transform_pre"       \* step 1 (identifiers) ran
           transformado == outcome \in {"ok", "insert"}  \* transformar_paciente returned a dict
       IN  /\ cui_invalidos' = IF paso1 /\ CuiDescartado(pm) THEN cui_invalidos + 1 ELSE cui_invalidos
           /\ advertencias' = IF paso1 /\ CuiDescartado(pm)
                              THEN Append(advertencias, AdvertenciaCui(pm, Ahora))
                              ELSE advertencias
           /\ duplicados' = IF paso1 /\ validar_expediente_duplicado(pm.expediente)
                            THEN duplicados + 1 ELSE duplicados
           /\ errores' = IF ~transformado THEN Append(errores, ErrorTransformacion(pm, Ahora))
                         ELSE IF outcome = "insert" THEN Append(errores, ErrorInsert(pm, Ahora))
                         ELSE errores
           /\ pending' = IF outcome = "ok" THEN Append(pending, datos_postgres(pm, Ahora)) ELSE pending
           /\ batch_exitosos' = IF outcome = "ok" THEN batch_exitosos + 1 ELSE batch_exitosos
           /\ exitosos' = IF outcome = "ok" THEN exitosos + 1 ELSE exitosos
           /\ batch_errores' = SumaError(outcome, batch_errores)
           /\ fallas' = IF outcome = "ok" THEN fallas
                        ELSE Append(fallas, [tipo |-> outcome, id |-> pm.id])
    /\ idx' = idx + 1
    /\ pc' = IF idx = Len(pacientes_mysql) THEN "commit" ELSE "transform"
    /\ UNCHANGED <<source, batch_size, offset, total_procesados, resultado, pacientes_mysql,
                   sink, respuesta, fetch_log, fetched, commit_log>>

\* postgres_session.commit() succeeds: the added rows reach the table
CommitOk ==
    /\ pc = "commit"
    /\ Restricciones(sink \o pending)
    /\ sink' = sink \o pending
    /\ pending' = <<>>
    /\ commit_log' = Append(commit_log, [offset |-> offset, ok |-> TRUE, causa |-> "none"])
    /\ resultado' = ResultadoBatch(Len(pacientes_mysql), batch_exitosos, batch_errores,
                                   offset, batch_size)
    /\ pc' = "returned"
    /\ UNCHANGED <<source, batch_size, errores, advertencias, exitosos, duplicados,
                   cui_invalidos, offset, total_procesados, pacientes_mysql, idx,
                   batch_exitosos, batch_errores, respuesta, fetch_log, fetched, fallas>>

\* mutant of CommitFails: the rows added before the failure stay in the table
CommitFailsSinRollback(causa) ==
    /\ pc = "commit"
    /\ \/ causa = "constraint" /\ ~Restricciones(sink \o pending)
       \/ causa = "io" /\ Len(fallas) < MaxFallas
    /\ sink' = sink \o pending
    /\ pending' = <<>>
    /\ errores' = Append(errores, ErrorCommit(offset, Ahora))
    /\ commit_log' = Append(commit_log, [offset |-> offset, ok |-> FALSE, causa |-> causa])
    /\ fallas' = IF causa = "io" THEN Append(fallas, [tipo |-> "sink", offset |-> offset]) ELSE fallas
    /\ resultado' = ResultadoCommitFallido(Len(pacientes_mysql), offset, batch_size)
    /\ pc' = "returned"
    /\ UNCHANGED <<source, batch_size, advertencias, exitosos, duplicados, cui_invalidos,
                   offset, total_procesados, pacientes_mysql, idx, batch_exitosos,
                   batch_errores, respuesta, fetch_log, fetched>>

\* postgres_session.commit() raises: a constraint of the table is violated
\* ("constraint") or the sink is unreachable ("io").  The except branch rolls
\* back, records one COMMIT_ERROR entry and returns.
CommitFails(causa) ==
    /\ pc = "commit"
    /\ \/ causa = "constraint" /\ ~Restricciones(sink \o pending)
       \/ causa = "io" /\ Len(fallas) < MaxFallas
    /\ pending' = <<>>
    /\ errores' = Append(errores, ErrorCommit(offset, Ahora))
    /\ commit_log' = Append(commit_log, [offset |-> offset, ok |-> FALSE, causa |-> causa])
    /\ fallas' = IF causa = "io" THEN Append(fallas, [tipo |-> "sink", offset |-> offset]) ELSE fallas
    /\ resultado' = ResultadoCommitFallido(Len(pacientes_mysql), offset, batch_size)
    /\ pc' = "returned"
    /\ UNCHANGED <<source, batch_size, advertencias, exitosos, duplicados, cui_invalidos,
                   offset, total_procesados, pacientes_mysql, idx, batch_exitosos,
                   batch_errores, sink, respuesta, fetch_log, fetched>>

\* migrar_todo: the batch processed records; accumulate and advance the offset
NextBatch ==
    /\ pc = "returned"
    /\ resultado.procesados # 0
    /\ total_procesados' = total_procesados + resultado.procesados
    /\ offset' = resultado.offset_siguiente
    /\ pc' = "fetch"
    /\ UNCHANGED <<source, batch_size, errores, advertencias, exitosos, duplicados,
                   cui_invalidos, resultado, pacientes_mysql, idx, batch_exitosos,
                   batch_errores, pending, sink, respuesta, fetch_log, fetched, commit_log,
                   fallas>>

\* migrar_todo: the batch reported zero records; the loop breaks, the totals are
\* returned and the endpoint answers with them
Finish ==
    /\ pc = "returned"
    /\ resultado.procesados = 0
    /\ respuesta' = [status |-> 200, mensaje |-> "Migracion completada", stats |-> ResultadoTotal]
    /\ pc' = "done"
    /\ UNCHANGED <<source, batch_size, errores, advertencias, exitosos, duplicados,
                   cui_invalidos, offset, total_procesados, resultado, pacientes_mysql, idx,
                   batch_exitosos, batch_errores, pending, sink, fetch_log, fetched,
                   commit_log, fallas>>

\* the validator harness at rest, for the runs of the orchestrator
CuiQuiet == cui_pc = "off" /\ cui_in = None /\ cui_res = None

Init == InitMig /\ CuiQuiet

Next ==
    \/ MigrarTodo /\ UNCHANGED cui_vars
    \/ FetchPage /\ UNCHANGED cui_vars
    \/ FetchFails /\ UNCHANGED cui_vars
    \/ (\E o \in Outcomes : TransformRecord(o)) /\ UNCHANGED cui_vars
    \/ CommitOk /\ UNCHANGED cui_vars
    \/ (\E c \in {"constraint", "io"} : CommitFails(c)) /\ UNCHANGED cui_vars
    \/ NextBatch /\ UNCHANGED cui_vars
    \/ Finish /\ UNCHANGED cui_vars

Spec == Init /\ [][Next]_vars

\* the orchestrator at rest, for the runs of the validator harness
MigQuiet ==
    /\ pc = "off" /\ source = <<>> /\ batch_size = 1
    /\ errores = <<>> /\ advertencias = <<>>
    /\ exitosos = 0 /\ duplicados = 0 /\ cui_invalidos = 0
    /\ offset = 0 /\ total_procesados = 0 /\ resultado = None
    /\ pacientes_mysql = <<>> /\ idx = 0 /\ batch_exitosos = 0 /\ batch_errores = 0
    /\ pending = <<>> /\ sink = <<>> /\ respuesta = None
    /\ fetch_log = <<>> /\ fetched = <<>> /\ commit_log = <<>> /\ fallas = <<>>

(***************************************************************************)
(* Inputs of the validator harness                                         *)
(***************************************************************************)
\* number of trailing digits of the 12-digit prefix that range over 0..9
CuiFree == 1

\* the fixed digit of the positions that do not vary: 1,2,...,9,0,1,...
BaseDigit(i) == i % 10

\* decimal digit sequences of length L: the first digit from `first`, the
\* positions 13-CuiFree .. 13 (prefix tail and check digit) free, the rest fixed
DigitSeqs(L, first) ==
    LET freePos == {p \in 2..L : p >= CUI_LONGITUD - CuiFree /\ p <= CUI_LONGITUD}
        fixed == [i \in 1..L |-> BaseDigit(i)]
    IN  { [i \in 1..L |-> IF i = 1 THEN a ELSE IF i \in freePos THEN f[i] ELSE fixed[i]] :
            a \in first, f \in [freePos -> 0..9] }

\* the lengths of the decimal forms tried
CuiLengths == {1, 5, CUI_LONGITUD - 1, CUI_LONGITUD, CUI_LONGITUD + 1}

\* integers: zero, and signed numbers with a non-zero leading digit
CuiInts ==
    { [t |-> "int", neg |-> FALSE, mag |-> <<0>>] } \cup
    { [t |-> "int", neg |-> n, mag |-> m] :
        n \in BOOLEAN, m \in UNION { DigitSeqs(L, {1, 9}) : L \in CuiLengths } }

\* 13-character digit strings, leading zero included
CuiStrings ==
    { [i \in 1..CUI_LONGITUD |-> DigitChar(m[i])] : m \in DigitSeqs(CUI_LONGITUD, {0, 1, 9}) }

InitCui ==
    /\ MigQuiet
    /\ cui_res = None
    /\ \/ cui_pc = "int" /\ cui_in \in {None} \cup CuiInts
       \/ cui_pc = "str" /\ cui_in \in CuiStrings

\* a caller applies validar_cui to an optional integer
ValidarCui ==
    /\ cui_pc = "int"
    /\ cui_res' = validar_cui(cui_in)
    /\ cui_pc' = "validado"
    /\ UNCHANGED cui_in

\* a caller applies the checksum validator to a 13-digit string
ValidarDigito ==
    /\ cui_pc = "str"
    /\ cui_res' = validar_digito_verificador_cui(cui_in)
    /\ cui_pc' = "verificado"
    /\ UNCHANGED cui_in

NextCui ==
    \/ ValidarCui /\ UNCHANGED mig_vars
    \/ ValidarDigito /\ UNCHANGED mig_vars

SpecCui == InitCui /\ [][NextCui]_vars

(***************************************************************************)
(* C1, C2: the checksum, stated from the specification's formula           *)
(***************************************************************************)
\* sum = d12*2 + d11*3 + ... + d1*13 over the digit values d[1..12]
SumaSegunSpec(d) ==
    d[12] * 2 + d[11] * 3 + d[10] * 4 + d[9] * 5 + d[8] * 6 + d[7] * 7 +
    d[6] * 8 + d[5] * 9 + d[4] * 10 + d[3] * 11 + d[2] * 12 + d[1] * 13

ExpectedSegunSpec(d) == 11 - (SumaSegunSpec(d) % 11)

\* the check digit the formula asks for; 10 means that none exists
CheckDigitSegunSpec(d) == IF ExpectedSegunSpec(d) = 11 THEN 0 ELSE ExpectedSegunSpec(d)

\* C1: validar_cui accepts exactly the absent input and the non-negative
\* 13-digit integers whose 13th digit is the check digit of the first 12
\* (weights 2..13 from the right, expected = 11 - sum mod 11, 11 read as 0,
\* 10 never valid); every other input is rejected with a reason.
C1_ValidarCuiExact ==
    cui_pc = "validado" =>
        LET acepta ==
                \/ cui_in = None
                \/ /\ cui_in # None
                   /\ ~cui_in.neg
                   /\ Len(cui_in.mag) = 13
                   /\ ExpectedSegunSpec(cui_in.mag) # 10
                   /\ cui_in.mag[13] = CheckDigitSegunSpec(cui_in.mag)
        IN  /\ cui_res.ok <=> acepta
            /\ ~cui_res.ok => cui_res.msg # <<>>
            /\ cui_res.ok => cui_res.msg = <<>>

\* C1 witness: a 13-digit integer whose expected value is 11 (check digit 0) was accepted
C1_Witness ==
    /\ cui_pc = "validado"
    /\ cui_in # None
    /\ Len(cui_in.mag) = 13
    /\ ExpectedSegunSpec(cui_in.mag) = 11
    /\ cui_res.ok

\* the digit values of a digit string
Valores(s) == [i \in 1..Len(s) |-> CharVal(s[i])]

\* C2: on every 13-digit string the checksum validator returns a result
\* without taking its exception path; it accepts the string exactly when the
\* last digit is the check digit computed from the 12-digit prefix and that
\* computed value is not 10 (so for a prefix whose value is 10 all ten check
\* digits are rejected, and otherwise exactly the computed one is accepted).
C2_RoundTrip ==
    cui_pc = "verificado" =>
        LET d == Valores(cui_in)
        IN  /\ cui_res.msg # <<>> => cui_res.msg[1] # "Error al validar CUI: "
            /\ cui_res.ok <=> (ExpectedSegunSpec(d) # 10 /\ d[13] = CheckDigitSegunSpec(d))
            /\ ExpectedSegunSpec(d) = 10 => ~cui_res.ok

\* C2 witness: a string with a leading zero carrying its computed check digit was accepted
C2_Witness ==
    /\ cui_pc = "verificado"
    /\ cui_in[1] = "0"
    /\ ExpectedSegunSpec(Valores(cui_in)) \in 1..9
    /\ cui_res.ok

(***************************************************************************)
(* C3 .. C10: the orchestrator                                             *)
(***************************************************************************)
\* the ids of legacy rows, and the legacy ids of transformed rows
Ids(filas) == { filas[i].id : i \in 1..Len(filas) }
IdsOrigen(filas) == { filas[i].metadatos.id_origen : i \in 1..Len(filas) }

\* the ids of the records whose transformation or insertion raised
IdsConFalla == { fallas[k].id : k \in { j \in 1..Len(fallas) : fallas[j].tipo \in Outcomes } }

\* whether the aggregate validator accepts a transformed record
Aceptado(p) ==
    LET v == validar_paciente_completo(p, Hoy, Ahora)
    IN  v.t = "ok" /\ v.es_valido

\* the last commit attempt
UltimoCommit == commit_log[Len(commit_log)]

\* the committed rows that come from the page in hand
DelLote == { i \in 1..Len(sink) : sink[i].metadatos.id_origen \in Ids(pacientes_mysql) }

\* the COMMIT_ERROR entries that carry an offset
ErroresDeCommit(off) ==
    { k \in 1..Len(errores) : errores[k].tipo = "COMMIT_ERROR" /\ errores[k].batch = off }

\* the entries of self.errores that carry a record id
ErroresDeRegistro(id) ==
    { k \in 1..Len(errores) : errores[k].tipo # "COMMIT_ERROR" /\ errores[k].id_mysql = id }

\* C3: no record that validar_paciente_completo rejects is added to the
\* session or committed to the sink by migrar_batch.
C3_SoloAceptadosEnSink ==
    \A i \in 1..Len(pending \o sink) : Aceptado((pending \o sink)[i])

\* C4: after the commit attempt of a batch: there was exactly one attempt for
\* its offset and nothing stays pending; if it failed, no record of the batch
\* is in the sink, the result reports exitosos = 0 and errores = procesados,
\* and exactly one COMMIT_ERROR entry carries the batch offset; if it
\* succeeded, every record added in the batch is in the sink.
C4_BatchAtomico ==
    (pc = "returned" /\ pacientes_mysql # <<>>) =>
        /\ commit_log # <<>>
        /\ UltimoCommit.offset = offset
        /\ Cardinality({ k \in 1..Len(commit_log) : commit_log[k].offset = offset }) = 1
        /\ pending = <<>>
        /\ ~UltimoCommit.ok =>
            /\ DelLote = {}
            /\ resultado.exitosos = 0
            /\ resultado.procesados = Len(pacientes_mysql)
            /\ resultado.errores = resultado.procesados
            /\ Cardinality(ErroresDeCommit(offset)) = 1
            /\ errores[Len(errores)] = ErrorCommit(offset, Ahora)
        /\ UltimoCommit.ok =>
            /\ Cardinality(DelLote) = batch_exitosos
            /\ { sink[i].metadatos.id_origen : i \in DelLote } = Ids(pacientes_mysql) \ IdsConFalla
            /\ ErroresDeCommit(offset) = {}

\* C4 witness: the commit of a batch in which two records were added has failed
C4_Witness ==
    /\ pc = "returned"
    /\ commit_log # <<>>
    /\ ~UltimoCommit.ok
    /\ UltimoCommit.offset = offset
    /\ batch_exitosos = 2
    /\ sink = <<>>

\* C5: when migrar_todo of a fresh service has ended, total_exitosos is the
\* number of records the run committed to the sink.
C5_ExitososSonLosConfirmados ==
    pc = "done" => respuesta.stats.total_exitosos = Len(sink)

\* C6: a record whose transformation or insertion raised has exactly one
\* error entry with its id and is neither pending nor in the sink; the failed
\* count of its batch is the number of such records; the exception does not
\* leave migrar_batch; every other record of the batch handled so far was
\* added, and is in the sink once the batch's commit has succeeded.
C6_FallaAislada ==
    /\ \A id \in IdsConFalla :
        /\ Cardinality(ErroresDeRegistro(id)) = 1
        /\ id \notin IdsOrigen(pending \o sink)
    /\ pc = "raised" => fallas[Len(fallas)].tipo = "source"
    /\ pc \in {"transform", "commit"} =>
        LET vistos == { pacientes_mysql[i].id : i \in 1..(idx - 1) }
        IN  /\ batch_errores = Cardinality(vistos \cap IdsConFalla)
            /\ batch_exitosos = Cardinality(vistos \ IdsConFalla)
            /\ IdsOrigen(pending) = vistos \ IdsConFalla
    /\ (pc = "returned" /\ pacientes_mysql # <<>> /\ UltimoCommit.ok) =>
        /\ { sink[i].metadatos.id_origen : i \in DelLote } = Ids(pacientes_mysql) \ IdsConFalla
        /\ resultado.errores = Cardinality(Ids(pacientes_mysql) \cap IdsConFalla)

\* C6 witness: the first record of a two-record batch raised, the second was
\* added and the batch is committed
C6_Witness ==
    /\ pc = "returned"
    /\ Len(pacientes_mysql) = 2
    /\ pacientes_mysql[1].id \in IdsConFalla
    /\ UltimoCommit.ok
    /\ DelLote # {}
    /\ resultado.errores = 1

\* the number of page queries of a complete run: one per page, one that finds
\* the source exhausted
Consultas == (Len(source) + batch_size - 1) \div batch_size + 1

\* whether the run can take its next step; for the for loop this is the guard
\* of its iteration written out
Avanza ==
    \/ ENABLED MigrarTodo
    \/ ENABLED FetchPage
    \/ pc = "transform" /\ idx \in 1..Len(pacientes_mysql)
    \/ ENABLED CommitOk
    \/ ENABLED CommitFails("constraint")
    \/ ENABLED NextBatch
    \/ ENABLED Finish

\* the progress of a run: the page queries issued so far, then the position
\* inside the batch in hand
Medida ==
    LET dentro == CASE pc = "idle" -> 0
                    [] pc = "transform" -> idx
                    [] pc = "commit" -> Len(pacientes_mysql) + 1
                    [] pc = "returned" -> Len(pacientes_mysql) + 2
                    [] pc = "fetch" -> Len(pacientes_mysql) + 3
                    [] OTHER -> Len(pacientes_mysql) + 4
    IN  Len(fetch_log) * (batch_size + 5) + dentro

\* C7: while no page query raises, a run that has not ended can always take a
\* step, every step advances the progress measure, and the measure is bounded
\* by the Consultas page queries of a complete run, so the run ends; every
\* page but the one that ends the run is non-empty; at the end the last batch
\* reported zero records, every source record was fetched exactly once, in
\* order, and total_procesados is the size of the source.
C7_Termina ==
    /\ []((\A k \in 1..Len(fallas) : fallas[k].tipo # "source") =>
            /\ pc # "raised"
            /\ pc # "done" => Avanza
            /\ Len(fetch_log) <= Consultas
            /\ Medida <= (Consultas + 1) * (batch_size + 5)
            /\ \A k \in 1..(Len(fetch_log) - 1) : Pagina(source, fetch_log[k], batch_size) # <<>>
            /\ pc = "done" =>
                /\ Len(fetch_log) = Consultas
                /\ resultado.procesados = 0
                /\ Pagina(source, fetch_log[Len(fetch_log)], batch_size) = <<>>
                /\ fetched = [i \in 1..Len(source) |-> source[i].id]
                /\ total_procesados = Len(source)
                /\ respuesta.stats.total_procesados = Len(source))
    /\ [][Medida' > Medida]_vars

\* C7 witness: a run over three records in batches of two, with a failed
\* commit, has ended
C7_Witness ==
    /\ pc = "done"
    /\ Len(source) = 3
    /\ batch_size = 2
    /\ \E k \in 1..Len(commit_log) : ~commit_log[k].ok
    /\ total_procesados = 3

\* C8: the page queries are at offsets 0, B, 2B, ... in that order; the commit
\* attempts follow the same order, one per batch; a page is queried only when
\* every earlier batch has had its commit attempt; after a failed commit the
\* run goes on with the next offset.
C8_Secuencial ==
    /\ \A k \in 1..Len(fetch_log) : fetch_log[k] = (k - 1) * batch_size
    /\ \A k \in 1..Len(commit_log) : commit_log[k].offset = (k - 1) * batch_size
    /\ Len(commit_log) <= Len(fetch_log)
    /\ Len(fetch_log) <= Len(commit_log) + 1
    /\ pc = "fetch" => Len(fetch_log) = Len(commit_log) /\ pending = <<>>
    /\ (pc = "returned" /\ pacientes_mysql # <<>> /\ ~UltimoCommit.ok) =>
        /\ ENABLED NextBatch
        /\ ~ENABLED Finish
        /\ resultado.offset_siguiente = offset + batch_size

\* C8 witness: the commit of the first batch failed and the second batch has
\* been fetched and committed
C8_Witness ==
    /\ Len(commit_log) = 2
    /\ ~commit_log[1].ok
    /\ commit_log[2].ok
    /\ fetch_log = <<0, batch_size>>
    /\ sink # <<>>

\* C9: after the sink or the source was unreachable no later page is queried
\* and no later commit is attempted, the run ends failed, and the answer to
\* the caller carries the counters collected so far.
C9_FallaTerminal ==
    \A k \in 1..Len(fallas) : fallas[k].tipo \in {"source", "sink"} =>
        /\ fetch_log = <<>> \/ fetch_log[Len(fetch_log)] <= fallas[k].offset
        /\ commit_log = <<>> \/ UltimoCommit.offset <= fallas[k].offset
        /\ pc # "done"
        /\ respuesta # None => "stats" \in DOMAIN respuesta

\* C10: the result of migrar_batch for a non-empty page: procesados is the
\* number of rows of the page, at most batch_size; exitosos + errores =
\* procesados; offset_siguiente = offset + batch_size.  For an exhausted
\* source: procesados = 0.
C10_ResultadoBatch ==
    pc = "returned" =>
        LET pagina == Pagina(source, offset, batch_size)
        IN  /\ pacientes_mysql = pagina
            /\ pagina # <<>> =>
                /\ resultado.procesados = Len(pagina)
                /\ resultado.procesados <= batch_size
                /\ resultado.exitosos + resultado.errores = resultado.procesados
                /\ resultado.offset_siguiente = offset + batch_size
            /\ pagina = <<>> =>
                /\ offset >= Len(source)
                /\ resultado.procesados = 0

\* C10 witness: a committed batch whose page is shorter than batch_size
C10_Witness ==
    /\ pc = "returned"
    /\ pacientes_mysql # <<>>
    /\ Len(pacientes_mysql) < batch_size
    /\ UltimoCommit.ok
    /\ resultado.exitosos = 1
    /\ resultado.offset_siguiente = offset + batch_size

(***************************************************************************)
(* C11, C12: batches of the orchestrator                                   *)
(***************************************************************************)
\* C11: a call of migrar_batch whose page query returns no row returns
\* procesados = 0 and leaves exitosos, duplicados, cui_invalidos, the errores
\* list, the advertencias list and the sink as they were; nothing is left
\* pending for the sink.
C11_PaginaVaciaNoCambia ==
    [][(pc = "fetch" /\ pc' # "raised" /\ Pagina(source, offset, batch_size) = <<>>) =>
        /\ pc' = "returned"
        /\ resultado'.procesados = 0
        /\ exitosos' = exitosos
        /\ duplicados' = duplicados
        /\ cui_invalidos' = cui_invalidos
        /\ errores' = errores
        /\ advertencias' = advertencias
        /\ sink' = sink
        /\ pending' = <<>>]_vars

\* C11 witness: migrar_batch returned from an empty page in a run that has
\* already counted successes, a warning and an error
C11_Witness ==
    /\ pc = "returned"
    /\ pacientes_mysql = <<>>
    /\ resultado.procesados = 0
    /\ fetch_log # <<>> /\ fetch_log[Len(fetch_log)] = offset
    /\ exitosos > 0
    /\ advertencias # <<>>
    /\ errores # <<>>
    /\ sink # <<>>

\* the ids of the page in hand that the for loop has not reached yet
PorProcesar == { pacientes_mysql[i].id : i \in { j \in 1..Len(pacientes_mysql) : j >= idx } }

\* the ids of the records whose step 1 of transformar_paciente has run
ConPaso1 ==
    ({ fetched[k] : k \in 1..Len(fetched) } \ PorProcesar) \
    { fallas[k].id : k \in { j \in 1..Len(fallas) : fallas[j].tipo = "transform_pre" } }

\* whether a legacy national id is a non-negative number of 13 digits
DpiDeTrece(dpi) == dpi # None /\ ~dpi.neg /\ Len(dpi.mag) = 13 /\ dpi.mag[1] # 0

\* whether a legacy national id is present and not a 13-digit number
DpiPresenteNoTrece(dpi) == dpi # None /\ ~DpiDeTrece(dpi)

\* the CUI_INVALIDO warnings of a record
AdvertenciasDe(id) ==
    { k \in 1..Len(advertencias) :
        advertencias[k].tipo = "CUI_INVALIDO" /\ advertencias[k].id_mysql = id }

\* a committed batch of two records without exceptions, the first with a
\* structurally valid national id, the second with a national id that is
\* present and not of 13 digits
LoteValidoEInvalido ==
    /\ pc = "returned"
    /\ Len(pacientes_mysql) = 2
    /\ DpiDeTrece(pacientes_mysql[1].dpi)
    /\ DpiPresenteNoTrece(pacientes_mysql[2].dpi)
    /\ Ids(pacientes_mysql) \cap IdsConFalla = {}
    /\ commit_log # <<>> /\ UltimoCommit.ok /\ UltimoCommit.offset = offset

\* C12 as stated: such a batch yields exitosos = 1 and one CUI_INVALIDO warning
C12_UnSoloExitoso ==
    LoteValidoEInvalido =>
        /\ resultado.exitosos = 1
        /\ Cardinality(UNION { AdvertenciasDe(id) : id \in Ids(pacientes_mysql) }) = 1

\* C12 amended: each record whose national id is present and is not a 13-digit
\* number gets exactly one CUI_INVALIDO warning and one count in cui_invalidos
\* once step 1 of its transformation has run, every other record gets none;
\* the record is stored with cui absent and is counted among the succeeded
\* records like any other, so a committed batch of one structurally valid and
\* one structurally invalid record yields exitosos = 2 and one warning.
C12_AdvertenciaYExito ==
    /\ \A id \in Ids(source) :
        Cardinality(AdvertenciasDe(id)) =
            IF id \in ConPaso1 /\ DpiPresenteNoTrece(source[id].dpi) THEN 1 ELSE 0
    /\ cui_invalidos = Len(advertencias)
    /\ \A i \in 1..Len(pending \o sink) :
        LET r == (pending \o sink)[i]
        IN  DpiPresenteNoTrece(source[r.metadatos.id_origen].dpi) => r.cui = None
    /\ (pc = "returned" /\ pacientes_mysql # <<>> /\ UltimoCommit.ok) =>
        resultado.exitosos = Cardinality(Ids(pacientes_mysql) \ IdsConFalla)
    /\ LoteValidoEInvalido =>
        /\ resultado.exitosos = 2
        /\ Cardinality(UNION { AdvertenciasDe(id) : id \in Ids(pacientes_mysql) }) = 1
        /\ Cardinality(DelLote) = 2

\* C12 witness: the batch of one valid and one nine-digit national id is committed
C12_Witness ==
    /\ LoteValidoEInvalido
    /\ resultado.exitosos = 2
    /\ Len(advertencias) = 1
    /\ sink[Len(sink)].cui = None

(***************************************************************************)
(* Runs over one-row tables whose row ranges over the legacy values the    *)
(* normalizers distinguish                                                 *)
(***************************************************************************)
\* 1234567890113: thirteen digits with a wrong check digit
DpiMalDigito == PBig(FALSE, <<1, 2, 3, 4, 5, 6, 7, 8, 9, 0, 1, 1, 3>>)

\* values of the BigInteger columns dpi and dpi_responsable
Dpis ==
    {None, PBig(FALSE, <<0>>), DpiValido, DpiMalDigito, DpiCorto,
     PBig(FALSE, <<1, 2, 3, 4, 5, 6, 7, 8, 9, 0, 1, 1, 2, 5>>),
     PBig(TRUE, <<1, 2, 3, 4, 5, 6, 7, 8, 9, 0, 1, 1>>)}

\* values of the Integer column expediente
Expedientes == {None, PInt(0), PInt(7), PInt(12345), PInt(0 - 3)}

\* values of the String column estado
Estados ==
    {None, S(<<>>), S(<<"V">>), S(<<"F">>), S(<<" ", "f">>), S(<<"f">>), S(<<"X">>)}

\* values of the String column fechaDefuncion
FechasDefuncion ==
    {None, S(<<>>), S(<<"n", "/", "a">>),
     S(<<"2", "0", "2", "0", "-", "0", "1", "-", "1", "5">>),
     S(<<"1", "5", "/", "0", "1", "/", "2", "0", "2", "0">>),
     S(<<"2", "0", "2", "0", "-", "0", "2", "-", "3", "0">>)}

\* values of the Time column hora_defuncion
HorasDefuncion == {None, PTime(0, 0, 0), PTime(10, 30, 0)}

\* values of the String column email
Emails ==
    {None, S(<<>>), S(<<" ">>), S(<<"N", "/", "A">>), S(<<"n", "u", "l", "l">>),
     S(<<"A", "n", "a", "@", "X", ".", "o", "r", "g">>),
     S(<<" ", "a", "@", "b", ".", "c", "o", " ">>)}

\* values of the String column responsable
Responsables == {None, S(<<"R", "o", "s", "a">>)}

\* the legacy rows tried: the complete row with one group of columns varied
Filas ==
    { [FilaBase(i) EXCEPT !.estado = e, !.fechaDefuncion = f, !.hora_defuncion = h] :
        i \in {1}, e \in Estados, f \in FechasDefuncion, h \in HorasDefuncion } \cup
    { [FilaBase(i) EXCEPT !.dpi = d, !.responsable = r, !.dpi_responsable = dr] :
        i \in {1}, d \in Dpis, r \in Responsables, dr \in Dpis } \cup
    { [FilaBase(i) EXCEPT !.expediente = e] : i \in {1, 42}, e \in Expedientes } \cup
    { [FilaBase(i) EXCEPT !.email = m] : i \in {1}, m \in Emails }

\* a fresh service with batch_size 1 over a table of one such row
InitFilas ==
    /\ CuiQuiet
    /\ pc = "idle"
    /\ source \in { <<f>> : f \in Filas }
    /\ batch_size = 1
    /\ errores = <<>> /\ advertencias = <<>>
    /\ exitosos = 0 /\ duplicados = 0 /\ cui_invalidos = 0
    /\ offset = 0 /\ total_procesados = 0
    /\ resultado = None
    /\ pacientes_mysql = <<>> /\ idx = 0 /\ batch_exitosos = 0 /\ batch_errores = 0
    /\ pending = <<>> /\ sink = <<>>
    /\ respuesta = None
    /\ fetch_log = <<>> /\ fetched = <<>> /\ commit_log = <<>> /\ fallas = <<>>

SpecFilas == InitFilas /\ [][Next]_vars

\* the normalized records transformar_paciente has produced so far
Normalizados == pending \o sink

\* the legacy row a normalized record comes from
FilaDe(r) == source[CHOOSE k \in 1..Len(source) : source[k].id = r.metadatos.id_origen]

(***************************************************************************)
(* C14, C18, C19, C20: the normalized records                              *)
(***************************************************************************)
\* C14: in every normalized record estado is "F" exactly when datos_extra
\* carries a death sub-document.
C14_EstadoYDefuncion ==
    \A i \in 1..Len(Normalizados) :
        Normalizados[i].estado = <<"F">> <=> Normalizados[i].datos_extra.defuncion # None

\* whether a normalized national id is absent or a 13-digit number that
\* validar_cui accepts
CuiAusenteOValido(cui) ==
    cui = None \/ (~cui.neg /\ Len(cui.mag) = CUI_LONGITUD /\ validar_cui(cui).ok)

\* C18: in every normalized record the national id is absent or a 13-digit
\* number that validar_cui accepts, and so is the national id of its
\* responsible-party sub-document.
C18_CuiValidoOAusente ==
    \A i \in 1..Len(Normalizados) :
        LET r == Normalizados[i]
        IN  /\ CuiAusenteOValido(r.cui)
            /\ r.referencias.responsable # None => CuiAusenteOValido(r.referencias.responsable.cui)

\* whether a legacy record number is absent or zero
SinExpediente(pm) == pm.expediente = None \/ (pm.expediente # None /\ pm.expediente.v = 0)

\* whether a normalized record number starts with "DUP-"
EsDup(e) == Len(e) >= 4 /\ SubSeq(e, 1, 4) = <<"D", "U", "P", "-">>

C20_EmailAusente ==
    \A i \in 1..Len(Normalizados) : Normalizados[i].contacto.email = None

(***************************************************************************)
(* Direct calls of normalizar_cui, validar_identificadores and             *)
(* validar_paciente_completo                                               *)
(***************************************************************************)
\* 1234567890112 with a minus sign
DpiNegativo == PBig(TRUE, <<1, 2, 3, 4, 5, 6, 7, 8, 9, 0, 1, 1, 2>>)

\* the record numbers handed to the validators: absent, empty, numeric,
\* generated, malformed
ExpedientesVal ==
    {None, S(<<>>), S(<<"1", "0", "1">>), S(<<"D", "U", "P", "-", "7">>), S(<<"1", "2", "a">>)}

\* the national ids handed to validar_identificadores
CuisVal == {None, DpiValido, DpiMalDigito, DpiCorto, DpiNegativo}

\* the passports: absent, empty, well-formed, letters only, 26 characters
PasaportesVal ==
    {None, S(<<>>), S(<<"A", "1", "2", "3", "4", "5", "6", "7">>), S(<<"A", "B", "C">>),
     S([i \in 1..(PASAPORTE_MAX_LENGTH + 1) |-> IF i = 1 THEN "A" ELSE "1"])}

\* the argument triples of validar_identificadores
Identificadores ==
    [expediente : ExpedientesVal, cui : CuisVal, pasaporte : PasaportesVal]

\* death sub-documents: absent, in the past, in the future, malformed
Defunciones ==
    {None,
     [t |-> "dict", fecha_hora |-> PStr(isoformat(PDateTime(PDate(2020, 1, 15), PTime(0, 0, 0))))],
     [t |-> "dict", fecha_hora |-> PStr(isoformat(PDateTime(PDate(2030, 1, 1), PTime(0, 0, 0))))],
     [t |-> "dict", fecha_hora |-> S(<<"a", "y", "e", "r">>)]}

\* the normalized record of the complete legacy row
PacienteBase == datos_postgres(FilaBase(1), Ahora)

\* candidate normalized records: the record of the complete row with its
\* identifiers, name, sex, birth date, email, twin flag, death sub-document
\* and vital status varied
Pacientes ==
    { [PacienteBase EXCEPT
          !.expediente = e.s, !.cui = c, !.pasaporte = p,
          !.nombre.primer_nombre = n, !.sexo = sx, !.fecha_nacimiento = fn,
          !.contacto.email = em, !.referencias.es_gemelo = g,
          !.datos_extra.defuncion = d, !.estado = es] :
        e \in ExpedientesVal \ {None},
        c \in {None, DpiValido, DpiMalDigito},
        p \in {None, S(<<"A", "B", "C">>)},
        n \in {None, S(<<"A", "n", "a">>)},
        sx \in {<<"F">>, <<"X">>},
        fn \in {PDate(1985, 5, 20), PDate(2030, 1, 1)},
        em \in {None, S(<<"a", "@", "b", ".", "c", "o">>), S(<<"a", "@", "b">>)},
        g \in {PBool(FALSE), S(<<"N", "O">>)},
        d \in Defunciones,
        es \in {<<"V">>, <<"F">>, <<"X">>} }

InitVal ==
    /\ MigQuiet
    /\ cui_res = None
    /\ \/ cui_pc = "dpi" /\ cui_in \in {None} \cup CuiInts
       \/ cui_pc = "ids" /\ cui_in \in Identificadores
       \/ cui_pc = "paciente" /\ cui_in \in Pacientes

\* a caller applies normalizar_cui to an optional integer
NormalizarCui ==
    /\ cui_pc = "dpi"
    /\ cui_res' = normalizar_cui(cui_in)
    /\ cui_pc' = "normalizado"
    /\ UNCHANGED cui_in

\* a caller applies validar_identificadores to three optional identifiers
ValidarIdentificadores ==
    /\ cui_pc = "ids"
    /\ cui_res' = validar_identificadores(cui_in.expediente, cui_in.cui, cui_in.pasaporte)
    /\ cui_pc' = "identificado"
    /\ UNCHANGED cui_in

\* a caller applies validar_paciente_completo to a candidate record
ValidarPacienteCompleto ==
    /\ cui_pc = "paciente"
    /\ cui_res' = validar_paciente_completo(cui_in, Hoy, Ahora)
    /\ cui_pc' = "revisado"
    /\ UNCHANGED cui_in

NextVal ==
    \/ NormalizarCui /\ UNCHANGED mig_vars
    \/ ValidarIdentificadores /\ UNCHANGED mig_vars
    \/ ValidarPacienteCompleto /\ UNCHANGED mig_vars

SpecVal == InitVal /\ [][NextVal]_vars

(***************************************************************************)
(* C13, C15, C16, C17: the validators and the structural normalizer        *)
(***************************************************************************)
\* C13: validar_paciente_completo reports a record invalid when estado is
\* "F" and there is no death sub-document, and also when estado is "V" and
\* there is a death sub-document.
C13_CoherenciaAmbosSentidos ==
    (cui_pc = "revisado" /\ cui_res.t = "ok") =>
        /\ (cui_in.estado = <<"F">> /\ cui_in.datos_extra.defuncion = None) => ~cui_res.es_valido
        /\ (cui_in.estado = <<"V">> /\ cui_in.datos_extra.defuncion # None) => ~cui_res.es_valido

\* whether an identifier is present and passes its own validator
ExpedienteBienFormado(e) == e # None /\ validar_expediente(e).ok
CuiBienFormado(c) == c # None /\ validar_cui(c).ok
PasaporteBienFormado(p) == p # None /\ validar_pasaporte(p).ok

\* C15: validar_identificadores returns invalid whenever record number,
\* national id and passport are all absent, and valid whenever at least one
\* of them is present and well-formed.
C15_AlMenosUnIdentificador ==
    cui_pc = "identificado" =>
        /\ (cui_in.expediente = None /\ cui_in.cui = None /\ cui_in.pasaporte = None) => ~cui_res.ok
        /\ (\/ ExpedienteBienFormado(cui_in.expediente)
            \/ CuiBienFormado(cui_in.cui)
            \/ PasaporteBienFormado(cui_in.pasaporte)) => cui_res.ok

\* the field groups whose checks give at least one failure reason for the
\* candidate record p
GruposConRazones(p, hoy, ahora) ==
    { g \in {"identificadores", "nombre", "sexo", "fecha_nacimiento", "contacto",
             "referencias", "datos_extra", "estado"} :
        CASE g = "identificadores" ->
                validar_identificadores(PStr(p.expediente), p.cui, p.pasaporte).errores # <<>>
          [] g = "nombre" -> validar_nombre_jsonb(p.nombre).errores # <<>>
          [] g = "sexo" -> ~validar_sexo(p.sexo).ok
          [] g = "fecha_nacimiento" -> ~validar_fecha_nacimiento(p.fecha_nacimiento, hoy).ok
          [] g = "contacto" -> validar_contacto_jsonb(p.contacto).errores # <<>>
          [] g = "referencias" -> validar_referencias_jsonb(p.referencias).errores # <<>>
          [] g = "datos_extra" -> validar_datos_extra_jsonb(p.datos_extra, ahora).errores # <<>>
          [] g = "estado" ->
                ~validar_estado(p.estado).ok \/ (p.estado = <<"F">> /\ p.datos_extra.defuncion = None) }

\* C16: the mapping validar_paciente_completo returns contains a field group
\* exactly when that group's checks produced at least one failure reason (a
\* failed national-id checksum, a malformed record number or a malformed
\* passport count under identificadores), and the record is reported valid
\* exactly when the mapping is empty.
C16_GruposConRazones ==
    (cui_pc = "revisado" /\ cui_res.t = "ok") =>
        /\ DOMAIN cui_res.errores_por_campo = GruposConRazones(cui_in, Hoy, Ahora)
        /\ cui_res.es_valido <=> DOMAIN cui_res.errores_por_campo = {}

\* C17: normalizar_cui returns its input unchanged exactly when the decimal
\* string of the input is 13 digit characters (a non-negative number of 13
\* digits), and returns absent for every other input: absent, zero, negative
\* numbers, numbers of fewer or more than 13 digits.  The check digit plays no
\* part.
C17_NormalizarCuiEstructural ==
    cui_pc = "normalizado" =>
        LET trece == cui_in # None /\ ~cui_in.neg /\ Len(cui_in.mag) = 13
        IN  /\ trece => cui_res = cui_in
            /\ ~trece => cui_res = None

\* C17 witness: a 13-digit number that validar_cui rejects is returned unchanged
C17_Witness ==
    /\ cui_pc = "normalizado"
    /\ cui_in # None
    /\ cui_res = cui_in
    /\ ~validar_cui(cui_in).ok

(***************************************************************************)
(* Direct calls of the normalizers and builders of normalizadores.py, of   *)
(* validar_fecha_nacimiento and of transformar_paciente's record           *)
(***************************************************************************)
\* the most tokens of a legacy name
MaxTokens == 4

\* izq, the words t[1..n] with the separators s[1..n-1] between them, der
RECURSIVE Armar(_, _, _)
Armar(t, s, k) ==
    IF k > Len(t) THEN <<>>
    ELSE IF k = Len(t) THEN t[k]
    ELSE t[k] \o s[k] \o Armar(t, s, k + 1)

\* the legacy name and surname columns: NULL, or up to MaxTokens words (Ana,
\* de) with one or two spaces between them and optional spaces around
NombresLegados ==
    {None} \cup
    { S(izq \o Armar(t, s, 1) \o der) :
        izq \in {<<>>, <<" ">>}, der \in {<<>>, <<" ">>},
        t \in UNION { [1..n -> {<<"A", "n", "a">>, <<"d", "e">>}] : n \in 0..MaxTokens },
        s \in [1..(MaxTokens - 1) -> {<<" ">>, <<" ", " ">>}] }

\* the legacy fechaDefuncion strings (VARCHAR(10)): NULL, empty, each of the four formats,
\* unpadded and space-padded parts, surrounding spaces, a day that does not
\* exist, a two-digit year, a time attached, free text
FechasLegadas ==
    {None, S(<<>>),
     S(<<"2", "0", "2", "0", "-", "0", "1", "-", "1", "5">>),
     S(<<"1", "5", "/", "0", "1", "/", "2", "0", "2", "0">>),
     S(<<"2", "0", "2", "0", "/", "0", "1", "/", "1", "5">>),
     S(<<"1", "5", "-", "0", "1", "-", "2", "0", "2", "0">>),
     S(<<"2", "0", "2", "0", "-", "1", "-", "5">>),
     S(<<"5", "/", "1", "/", "2", "0", "2", "0">>),
     S(<<"2", "0", "2", "0", "-", "0", "1", "-", " ", "5">>),
     S(<<" ", "5", "/", "1", "/", "2", "0", "2", "0", " ">>),
     S(<<"2", "0", "2", "0", "-", "0", "2", "-", "2", "9">>),
     S(<<"2", "0", "2", "1", "-", "0", "2", "-", "2", "9">>),
     S(<<"3", "1", "/", "0", "4", "/", "2", "0", "2", "0">>),
     S(<<"2", "0", "2", "0", "-", "1", "3", "-", "0", "1">>),
     S(<<"1", "5", "-", "0", "1", "-", "2", "0">>),
     S(<<"2", "0", "2", "0", "-", "1", "-", "5", " ", "9">>),
     S(<<"2", "0", "2", "0", ".", "0", "1", ".", "1", "5">>),
     S(<<"a", "y", "e", "r">>)}

\* the legacy (fechaDefuncion, hora_defuncion) column pairs
DefuncionesLegadas ==
    [fecha_str : FechasLegadas,
     hora : {None, PTime(0, 0, 0), PTime(10, 30, 0), PTime(23, 59, 59)}]

\* the legacy gemelo strings (VARCHAR(2))
Gemelos ==
    {None, S(<<>>), S(<<"S", "I">>), S(<<"s", "i">>), S(<<"S">>), S(<<"Y">>),
     S(<<"y">>), S(<<"1">>), S(<<"N", "O">>), S(<<"0">>), S(<<" ", "S">>)}

\* the arguments of construir_referencias_jsonb that vary (padre, madre,
\* exp_madre and conyugue are None)
ArgsReferencias ==
    [responsable : {None, S(<<>>), S(<<"R", "o", "s", "a">>)},
     parentesco : {None, PInt(2)},
     dpi_responsable : {None, DpiValido, DpiCorto},
     telefono_responsable : {None, PInt(5566)},
     exp_ref : {None, PInt(9)},
     gemelo : Gemelos]

\* readings of date.today(): an ordinary day and two 29ths of February
Hoys == {Hoy, PDate(2028, 2, 29), PDate(2400, 2, 29)}

\* birth dates around the two limits of each reading of today
Nacimientos ==
    {None} \cup
    UNION { { PDate(h.y, h.m, h.d), PDate(h.y + 1, h.m, h.d - 1), PDate(h.y, h.m, h.d - 1),
              PDate(h.y - edad_maxima, h.m, h.d - 1), PDate(h.y - edad_maxima, h.m + 1, 1),
              PDate(h.y - edad_maxima - 1, 12, 31), PDate(1985, 5, 20) } : h \in Hoys }

\* two readings of datetime.now(), one second apart
Relojes == {Ahora, PDateTime(Hoy, PTime(12, 0, 1))}

\* the (id, expediente) columns of two legacy rows
ParesLegados ==
    { <<a, b>> : a, b \in [id : {1, 7, 42},
                           expediente : {None, PInt(0), PInt(1), PInt(7), PInt(42), PInt(0 - 7)}] }

InitNorm ==
    /\ MigQuiet
    /\ cui_res = None
    /\ \/ cui_pc = "nombre" /\ cui_in \in NombresLegados
       \/ cui_pc = "apellido" /\ cui_in \in NombresLegados
       \/ cui_pc = "defuncion" /\ cui_in \in DefuncionesLegadas
       \/ cui_pc = "referencias" /\ cui_in \in ArgsReferencias
       \/ cui_pc = "nacimiento" /\ cui_in \in [fecha : Nacimientos, hoy : Hoys]
       \/ cui_pc = "fila" /\ cui_in \in Filas
       \/ cui_pc = "par" /\ cui_in \in ParesLegados

ExtraerNombres ==
    /\ cui_pc = "nombre"
    /\ cui_res' = extraer_nombres(cui_in)
    /\ cui_pc' = "nombres"
    /\ UNCHANGED cui_in

ExtraerApellidos ==
    /\ cui_pc = "apellido"
    /\ cui_res' = extraer_apellidos(cui_in)
    /\ cui_pc' = "apellidos"
    /\ UNCHANGED cui_in

ParsearFechaDefuncion ==
    /\ cui_pc = "defuncion"
    /\ cui_res' = parsear_fecha_defuncion(cui_in.fecha_str, cui_in.hora)
    /\ cui_pc' = "parseada"
    /\ UNCHANGED cui_in

ConstruirReferencias ==
    /\ cui_pc = "referencias"
    /\ cui_res' = construir_referencias_jsonb(None, None, None, cui_in.responsable,
                      cui_in.parentesco, cui_in.dpi_responsable, cui_in.telefono_responsable,
                      cui_in.exp_ref, None, cui_in.gemelo)
    /\ cui_pc' = "construidas"
    /\ UNCHANGED cui_in

\* validar_fecha_nacimiento(fecha) when date.today() reads cui_in.hoy: it
\* returns a pair or leaves by the ValueError of date(...)
ValidarFechaNacimiento ==
    /\ cui_pc = "nacimiento"
    /\ cui_res' = IF validar_fecha_nacimiento_raises(cui_in.fecha, cui_in.hoy)
                  THEN [t |-> "raise", tipo |-> "ValueError"]
                  ELSE validar_fecha_nacimiento(cui_in.fecha, cui_in.hoy)
    /\ cui_pc' = "nacimiento_validado"
    /\ UNCHANGED cui_in

\* the record of one legacy row is built twice; datetime.now() is read once
\* in each build and does not go back
ConstruirDosVeces ==
    /\ cui_pc = "fila"
    /\ \E a1, a2 \in Relojes :
        /\ ~DateTimeLess(a2, a1)
        /\ cui_res' = <<datos_postgres(cui_in, a1), datos_postgres(cui_in, a2)>>
    /\ cui_pc' = "dos_veces"
    /\ UNCHANGED cui_in

\* normalizar_expediente is applied to two legacy rows
NormalizarExpedientes ==
    /\ cui_pc = "par"
    /\ cui_res' = <<PStr(normalizar_expediente(cui_in[1].expediente, cui_in[1].id)),
                    PStr(normalizar_expediente(cui_in[2].expediente, cui_in[2].id))>>
    /\ cui_pc' = "par_normalizado"
    /\ UNCHANGED cui_in

NextNorm ==
    \/ ExtraerNombres /\ UNCHANGED mig_vars
    \/ ExtraerApellidos /\ UNCHANGED mig_vars
    \/ ParsearFechaDefuncion /\ UNCHANGED mig_vars
    \/ ConstruirReferencias /\ UNCHANGED mig_vars
    \/ ValidarFechaNacimiento /\ UNCHANGED mig_vars
    \/ ConstruirDosVeces /\ UNCHANGED mig_vars
    \/ NormalizarExpedientes /\ UNCHANGED mig_vars

SpecNorm == InitNorm /\ [][NextNorm]_vars

(***************************************************************************)
(* C21, C30: the references document                                       *)
(***************************************************************************)
\* the yes literals of the twin column, as the specification lists them
LiteralesSi == {<<"S", "I">>, <<"S">>, <<"Y", "E", "S">>, <<"Y">>, <<"1">>}

\* C21: the references document carries a boolean twin flag, true when the
\* legacy string is, case-insensitively, one of SI, S, YES, Y, 1 and false
\* for every other value, absent and empty included; so the document passes
\* the twin-flag check of validar_referencias_jsonb.
C21_GemeloBooleano ==
    cui_pc = "construidas" =>
        LET g == cui_in.gemelo
            si == g # None /\ upper(g.s) \in LiteralesSi
        IN  /\ cui_res.es_gemelo = PBool(si)
            /\ <<"es_gemelo debe ser true o false">> \notin
                   { validar_referencias_jsonb(cui_res).errores[k] :
                       k \in 1..Len(validar_referencias_jsonb(cui_res).errores) }

\* the legacy columns that make up the responsible-party sub-document
CamposResponsable ==
    <<"responsable", "parentesco", "dpi_responsable", "telefono_responsable", "exp_ref">>

\* C30: the responsible-party sub-document is absent only when the legacy
\* name, relationship id, national id, phone and reference record number of
\* the responsible party are all absent; when one of them is present the
\* document carries a sub-document.
C30_ResponsableNoSePierde ==
    cui_pc = "construidas" =>
        (cui_res.responsable = None <=>
            \A k \in 1..Len(CamposResponsable) : cui_in[CamposResponsable[k]] = None)

(***************************************************************************)
(* C22: name tokenization                                                  *)
(***************************************************************************)
\* the tokens of a legacy name: its maximal runs of non-space characters
Tokens(v) == IF v = None THEN <<>> ELSE split(v.s)

\* a component holding the tokens from position a on, absent when there are none
Resto(t, a) == IF Len(t) >= a THEN PStr(join(SubSeq(t, a, Len(t)))) ELSE None

\* a component holding token a alone, absent when there is none
Uno(t, a) == IF Len(t) >= a THEN PStr(t[a]) ELSE None

\* the strings of the components that are not absent, in order
Presentes(comps) ==
    LET p == SelectSeq(comps, LAMBDA c : c # None)
    IN  [k \in 1..Len(p) |-> p[k].s]

Anios == 2019..2022

\* the ways strptime reads a month and a day number: plain or zero padded,
\* and a one-digit day also after a space
EscriturasMes(n) == {IntStr(n), Pad(n, 2)}
EscriturasDia(n) == {IntStr(n), Pad(n, 2)} \cup (IF n < 10 THEN {<<" ">> \o IntStr(n)} ELSE {})

\* the strings that are the date y-m-d written in format k of
\* YYYY-MM-DD, DD/MM/YYYY, YYYY/MM/DD, DD-MM-YYYY
Escrituras(k, y, m, d) ==
    { CASE k = 1 -> Pad(y, 4) \o <<"-">> \o em \o <<"-">> \o ed
        [] k = 2 -> ed \o <<"/">> \o em \o <<"/">> \o Pad(y, 4)
        [] k = 3 -> Pad(y, 4) \o <<"/">> \o em \o <<"/">> \o ed
        [] k = 4 -> ed \o <<"-">> \o em \o <<"-">> \o Pad(y, 4) :
      em \in EscriturasMes(m), ed \in EscriturasDia(d) }

\* the calendar dates that s is a writing of in format k
FechasEscritas(s, k) ==
    { f \in [t : {"date"}, y : Anios, m : 1..12, d : 1..31] :
        f.d <= DaysInMonth(f.y, f.m) /\ s \in Escrituras(k, f.y, f.m, f.d) }

AntesDe(a, b) ==
    a.y < b.y \/ (a.y = b.y /\ (a.m < b.m \/ (a.m = b.m /\ a.d < b.d)))

\* whether a birth date implies more than edad years at date hoy: it is
\* before the same month and day edad years earlier
MasDe(fecha, hoy, edad) ==
    fecha.y < hoy.y - edad \/
    (fecha.y = hoy.y - edad /\ (fecha.m < hoy.m \/ (fecha.m = hoy.m /\ fecha.d < hoy.d)))

\* C24: for every reading of today, 29 February included, and every birth
\* date or absent value validar_fecha_nacimiento returns a result without
\* raising; it accepts absent, rejects the dates after today and the dates
\* that imply more than 150 years, and accepts every other date.
C24_FechaNacimientoTotal ==
    cui_pc = "nacimiento_validado" =>
        /\ "ok" \in DOMAIN cui_res
        /\ cui_res.ok <=>
            \/ cui_in.fecha = None
            \/ /\ cui_in.fecha # None
               /\ ~AntesDe(cui_in.hoy, cui_in.fecha)
               /\ ~MasDe(cui_in.fecha, cui_in.hoy, 150)

(***************************************************************************)
(* C25: determinism of the normalized record                               *)
(***************************************************************************)
\* C25: building the normalized record twice from the same legacy record
\* gives two identical records, the metadata document included.
C25_Determinista ==
    cui_pc = "dos_veces" => cui_res[1] = cui_res[2]

(***************************************************************************)
(* C29: uniqueness of the normalized record numbers                        *)
(***************************************************************************)
\* whether a legacy record number is a number other than zero
ConExpediente(fila) == fila.expediente # None /\ fila.expediente.v # 0

\* C29: two legacy rows with different internal ids, whose record numbers
\* differ when both are present and not zero, get different and non-empty
\* normalized record numbers.
C29_ExpedientesUnicos ==
    cui_pc = "par_normalizado" =>
        LET a == cui_in[1]
            b == cui_in[2]
        IN  /\ cui_res[1].s # <<>> /\ cui_res[2].s # <<>>
            /\ (/\ a.id # b.id
                /\ (ConExpediente(a) /\ ConExpediente(b)) => a.expediente # b.expediente)
               => cui_res[1] # cui_res[2]

\* C29 witness: a row without record number whose id is the record number of
\* another row
C29_Witness ==
    /\ cui_pc = "par_normalizado"
    /\ cui_in[1] = [id |-> 7, expediente |-> None]
    /\ cui_in[2] = [id |-> 1, expediente |-> PInt(7)]
    /\ cui_res = <<S(<<"D", "U", "P", "-", "7">>), S(<<"7">>)>>

(***************************************************************************)
(* C28: the totals of a run                                                *)
(***************************************************************************)
\* the errores count that the batch of commit attempt k reported: the whole
\* page after a failed commit, the records that raised after a successful one
ErroresDelLote(k) ==
    LET pagina == Pagina(source, commit_log[k].offset, batch_size)
    IN  IF commit_log[k].ok THEN Cardinality(Ids(pagina) \cap IdsConFalla) ELSE Len(pagina)

\* the sum of the errores counts of the first k batches
RECURSIVE SumaErroresLotes(_)
SumaErroresLotes(k) == IF k = 0 THEN 0 ELSE SumaErroresLotes(k - 1) + ErroresDelLote(k)

\* C28: at the end of a run total_procesados = total_exitosos + total_errores,
\* and total_errores is the sum of the errores counts the batches reported.
C28_Conservacion ==
    pc = "done" =>
        /\ respuesta.stats.total_procesados =
               respuesta.stats.total_exitosos + respuesta.stats.total_errores
        /\ respuesta.stats.total_errores = SumaErroresLotes(Len(commit_log))

(***************************************************************************)
(* Two runs over the same source and sink                                  *)
(***************************************************************************)
\* the number of migrar_todo runs that have queried the source
Corridas == Cardinality({ k \in 1..Len(fetch_log) : fetch_log[k] = 0 })

\* migrar_todo is called again on the service object of the finished run:
\* offset = 0, total_procesados = 0, nothing else is assigned
MigrarTodoDeNuevo ==
    /\ pc = "done"
    /\ Corridas < 2
    /\ offset' = 0
    /\ total_procesados' = 0
    /\ pc' = "fetch"
    /\ UNCHANGED <<source, batch_size, errores, advertencias, exitosos, duplicados,
                   cui_invalidos, resultado, pacientes_mysql, idx, batch_exitosos,
                   batch_errores, pending, sink, respuesta, fetch_log, fetched, commit_log,
                   fallas>>

\* the endpoint is called again: MigracionPacientesService(batch_size) builds
\* a new service object; source and sink are the same tables
NuevoServicio ==
    /\ pc = "done"
    /\ Corridas < 2
    /\ errores' = <<>> /\ advertencias' = <<>>
    /\ exitosos' = 0 /\ duplicados' = 0 /\ cui_invalidos' = 0
    /\ pc' = "idle"
    /\ UNCHANGED <<source, batch_size, offset, total_procesados, resultado, pacientes_mysql,
                   idx, batch_exitosos, batch_errores, pending, sink, respuesta, fetch_log,
                   fetched, commit_log, fallas>>

NextDos ==
    \/ Next
    \/ MigrarTodoDeNuevo /\ UNCHANGED cui_vars
    \/ NuevoServicio /\ UNCHANGED cui_vars

SpecDos == Init /\ [][NextDos]_vars

(***************************************************************************)
(* C26, C27: a second run                                                  *)
(***************************************************************************)
\* the position in fetch_log of the first page query of the second run
InicioSegunda == CHOOSE k \in 2..Len(fetch_log) : fetch_log[k] = 0

\* the commit attempts of the first run: one for each of its page queries
\* but the last, which found the empty page
CommitsPrimera == InicioSegunda - 2

\* whether every batch commit of the first run succeeded
PrimeraSinRechazo == \A k \in 1..CommitsPrimera : commit_log[k].ok

\* whether every record that raised did so in both runs
FallasRepetidas ==
    \A id \in IdsConFalla :
        Cardinality({ k \in 1..Len(fallas) : fallas[k].tipo \in Outcomes /\ fallas[k].id = id }) = 2

\* the normalized records of the source rows that never raised, in order
SinFalla ==
    LET filas == SelectSeq(source, LAMBDA f : f.id \notin IdsConFalla)
    IN  [k \in 1..Len(filas) |-> datos_postgres(filas[k], Ahora)]

\* the source ids in order
IdsEnOrden == [k \in 1..Len(source) |-> source[k].id]

\* whether a record of the session has the record number of a committed row
YaMigradoEnSesion ==
    \E i \in 1..Len(pending), j \in 1..Len(sink) : pending[i].expediente = sink[j].expediente

\* C26: a second run starts again at offset 0 and reads every source record
\* again.  When every batch commit of the first run succeeded, a batch of the
\* second run whose session holds an already-migrated record cannot be
\* committed; and, the records that raise being the same in both runs, the
\* sink after the second run holds what it held after the first: each record
\* that did not raise, once.
C26_SegundaCorrida ==
    Corridas = 2 =>
        /\ fetch_log[InicioSegunda] = 0
        /\ pc = "done" => fetched = IdsEnOrden \o IdsEnOrden
        /\ (pc = "commit" /\ PrimeraSinRechazo /\ YaMigradoEnSesion) =>
               ~Restricciones(sink \o pending)
        /\ (pc = "done" /\ PrimeraSinRechazo /\ FallasRepetidas) => sink = SinFalla

\* C26 witness: both runs are over, the first committed two or more records
\* in more than one batch and the second had a batch rejected by a constraint
C26_Witness ==
    /\ Corridas = 2
    /\ pc = "done"
    /\ PrimeraSinRechazo
    /\ CommitsPrimera >= 2
    /\ Len(sink) >= 2
    /\ sink = SinFalla
    /\ \E k \in (CommitsPrimera + 1)..Len(commit_log) :
        ~commit_log[k].ok /\ commit_log[k].causa = "constraint"

\* C27: at the beginning of every migrar_todo invocation, a second one on the
\* same service object included, exitosos, duplicados and cui_invalidos are 0
\* and errores and advertencias are empty; and in the result of a run
\* total_exitosos is at most total_procesados.
C27_EstadoPorCorrida ==
    /\ (pc = "fetch" /\ offset = 0) =>
        /\ exitosos = 0 /\ duplicados = 0 /\ cui_invalidos = 0
        /\ errores = <<>> /\ advertencias = <<>>
    /\ pc = "done" =>
        respuesta.stats.total_exitosos <= respuesta.stats.total_procesados

====
